---- MODULE Spec2Model ----
(***************************************************************************)
(* SecureControlsClient (custom_components/securecontrols_thermostat/      *)
(* api.py): the WebSocket lifecycle (connect, disconnect, _reconnect), the *)
(* two background tasks (_recv_loop, _keepalive_loop) and the request      *)
(* correlator (_send_request, _pending), the HTTP login, and the device    *)
(* state kept by ThermoCoordinator (coordinator.py).                       *)
(*                                                                         *)
(* The client runs on one asyncio event loop.  A coroutine runs without    *)
(* interruption from one suspension point (an await that really suspends)  *)
(* to the next, so every action below is one such run of one coroutine.    *)
(* The state is gathered in a record (Cur), each run is an operator from   *)
(* record to record, and Commit writes the record back to the variables.   *)
(***************************************************************************)
EXTENDS Integers, Sequences, FiniteSets

\* ------------------------------------------------------------------ bounds
\* task slots (asyncio.Task objects alive at the same time) when requests are issued
MaxTasks == 3
\* task slots when no request is issued
MaxTasksIdle == 4
\* sockets opened in one behaviour (ws_connect successes) when requests are issued
MaxSockets == 2
\* sockets opened in one behaviour when no request is issued
MaxSocketsIdle == 3
\* _send_request calls in one behaviour
MaxReq == 2
\* distinct outcomes of secrets.token_hex(4) in _new_corr
MaxCorr == 2
\* the attempt counter of _reconnect saturates here (the delay is constant from 7 on)
MaxAttempt == 2
\* listeners registered with on_update in one behaviour
MaxHandlers == 2
\* push notifications received in one behaviour, when their routing is looked at
MaxNotify == 2
\* push notifications received in one behaviour, when the queue is filled
\* (a few more than the capacity of the queue)
MaxNotifyFull == 203
\* sockets opened in one behaviour when the routing of frames is looked at
MaxSocketsRouting == 1
\* failed keepalive ticks counted in one behaviour, when the ticks are looked at
MaxTickFailures == 2
\* login calls in one behaviour, when the login is looked at
MaxLogins == 3
\* login calls in one behaviour otherwise
MaxLoginsOnce == 1
\* the celsius values encoded, in hundredths of a degree: -30.00 to 30.00
MaxCenti == 3000
\* the deci-degree values decoded: -300 to 300
MaxDeci == 300
\* the minutes of a timed hold: 0 to 45
MaxMinutes == 45
\* the integer preset codes given to set_preset: 0 to 3
MaxPresetCode == 3
\* socket-open attempts of one reconnect sequence, when its delays are looked at
MaxRetries == 9

\* ------------------------------------------------------- program constants
\* _keepalive_loop: stale_after = 180
stale_after == 180
\* __init__: self._updates_q = asyncio.Queue(maxsize=200)
queue_maxsize == 200
\* _reconnect 327: base = min(30, ...)
BackoffCap == 30
\* _reconnect 328: secrets.randbelow(1000) / 1000.0
JitterSteps == 1000

Sockets == 1..MaxSocketsIdle
Reqs == 1..MaxReq
CorrIds == 1..MaxCorr

\* The age of the last inbound frame (now - _last_rx_ts) is only ever compared
\* with stale_after: it is kept as 0 (below stale_after), stale_after, or the
\* first value above it.
AgeCap == stale_after + 1

VARIABLES
    stop,          \* self._stop (asyncio.Event): is_set()
    ws,            \* self._ws: 0 is None, else the socket
    recv_task,     \* self._recv_task: 0 is None, else the task
    ping_task,     \* self._ping_task: 0 is None, else the task
    last_rx_set,   \* self._last_rx_ts # 0
    last_rx_age,   \* _now_epoch() - self._last_rx_ts, saturated at AgeCap
    pending,       \* self._pending: correlation id -> request whose future it holds (0: no entry)
    lock_holder,   \* self._reconnect_lock: the task inside "async with", 0 if none
    lock_waiters,  \* self._reconnect_lock: tasks suspended in acquire(), in order
    closed,        \* per socket: ws.closed
    nsock,         \* sockets opened so far
    sock_cap,      \* the number of handshakes the server accepts in this behaviour
    task,          \* per task slot: the coroutine's position and cancellation state
    req,           \* per _send_request call: the caller's position and its future
    sent,          \* history: <<socket, request>> for every request frame written
    caller,        \* position of the code calling connect() / disconnect()
    caller_waits,  \* the task that disconnect() is awaiting (0: none)
    opened,        \* history: connect() succeeded and disconnect() not called since
    disc_returned, \* history: disconnect() has returned and connect() not called since
    disc_snapshot, \* history: requests in the pending table when disconnect() was called
    rc_snapshot,   \* history: requests in the pending table when the running teardown of _reconnect began
    auth_failed,   \* history: a reconnect sequence ended on a 401/403 and connect() not called since
    updates_q,     \* self._updates_q: the queued push notifications, oldest first
    notified,      \* push notifications dispatched so far (the n-th one is written n)
    notif_cap,     \* the number of push notifications the server sends in this behaviour
    handlers,      \* len(self._handlers): listeners registered with on_update
    listeners,     \* the tasks created for listeners, in creation order
    notify_replied, \* history: a frame of kind Notify completed a pending request
    dropped,       \* history: the notifications taken out of the full queue by _dispatch_notify
    tick_failed,   \* history: the keepalive ticks that raised, counted up to tick_cap
    tick_cap,      \* how many failed keepalive ticks are counted in this behaviour
    jwt,           \* self._jwt: 0 is None, n the token of the n-th login response
    session_id,    \* self._session_id: 0 is None, n the id of the n-th login response
    session_ts,    \* self._session_ts: 0 is None, n the JTT of the n-th login response
    user_id,       \* self._user_id: 0 is None, n the UI of the n-th login response
    thermostat,    \* self.thermostat: 0 is None, n the first device of the n-th login response
    login_result,  \* what the last login() call ended with ("none": no call yet)
    logins,        \* login() calls so far
    login_cap,     \* the number of login() calls in this behaviour
    connect_failed, \* the last connect() call raised "Call login() first"
    coord,         \* the ThermoCoordinator: _ws_started, _state_cache, the poll's position, ...
    call           \* a decoding function applied on its own: its input and its result

vars == <<stop, ws, recv_task, ping_task, last_rx_set, last_rx_age, pending,
          lock_holder, lock_waiters, closed, nsock, sock_cap, task, req, sent, caller,
          caller_waits, opened, disc_returned, disc_snapshot, rc_snapshot, auth_failed,
          updates_q, notified, notif_cap, handlers, listeners, notify_replied, dropped,
          tick_failed, tick_cap,
          jwt, session_id, session_ts, user_id, thermostat, login_result, logins,
          login_cap, connect_failed, coord, call>>

\* the variables of the notification router, those of the keepalive tick,
\* those of the login, those of the coordinator, and those of the rest of the client
nvars == <<updates_q, notified, notif_cap, handlers, listeners, notify_replied, dropped>>
kvars == <<tick_failed, tick_cap>>
svars == <<jwt, session_id, session_ts, user_id, thermostat, login_result, logins,
           login_cap, connect_failed>>
dvars == <<coord, call>>
cvars == <<stop, ws, recv_task, ping_task, last_rx_set, last_rx_age, pending,
           lock_holder, lock_waiters, closed, nsock, sock_cap, task, req, sent, caller,
           caller_waits, opened, disc_returned, disc_snapshot, rc_snapshot, auth_failed>>

\* the task slots of the behaviour
Tasks == DOMAIN task

Cur ==
    [stop |-> stop, ws |-> ws, recv_task |-> recv_task, ping_task |-> ping_task,
     last_rx_set |-> last_rx_set, last_rx_age |-> last_rx_age, pending |-> pending,
     lock_holder |-> lock_holder, lock_waiters |-> lock_waiters, closed |-> closed,
     nsock |-> nsock, sock_cap |-> sock_cap, task |-> task, req |-> req, sent |-> sent,
     caller |-> caller,
     caller_waits |-> caller_waits, opened |-> opened, disc_returned |-> disc_returned,
     disc_snapshot |-> disc_snapshot, rc_snapshot |-> rc_snapshot,
     auth_failed |-> auth_failed]

CommitClient(S) ==
    /\ stop' = S.stop
    /\ ws' = S.ws
    /\ recv_task' = S.recv_task
    /\ ping_task' = S.ping_task
    /\ last_rx_set' = S.last_rx_set
    /\ last_rx_age' = S.last_rx_age
    /\ pending' = S.pending
    /\ lock_holder' = S.lock_holder
    /\ lock_waiters' = S.lock_waiters
    /\ closed' = S.closed
    /\ nsock' = S.nsock
    /\ sock_cap' = S.sock_cap
    /\ task' = S.task
    /\ req' = S.req
    /\ sent' = S.sent
    /\ caller' = S.caller
    /\ caller_waits' = S.caller_waits
    /\ opened' = S.opened
    /\ disc_returned' = S.disc_returned
    /\ disc_snapshot' = S.disc_snapshot
    /\ rc_snapshot' = S.rc_snapshot
    /\ auth_failed' = S.auth_failed

\* a run of a coroutine that touches neither the notification router nor the tick
Commit(S) == CommitClient(S) /\ UNCHANGED nvars /\ UNCHANGED kvars /\ UNCHANGED svars /\ UNCHANGED dvars

\* ------------------------------------------------------------------- tasks
\* A finished task (returned, raised or cancelled): task.done() is true.
DoneTask == [kind |-> "none", pc |-> "done", cancel |-> FALSE, sock |-> 0, waits |-> 0, attempt |-> 0]

\* A task finished by an exception other than CancelledError: awaiting it raises.
FailedTask == [kind |-> "failed", pc |-> "done", cancel |-> FALSE, sock |-> 0, waits |-> 0, attempt |-> 0]

NewTask(k) == [kind |-> k, pc |-> "start", cancel |-> FALSE, sock |-> 0, waits |-> 0, attempt |-> 0]

\* the request record before _send_request is called
IdleReq == [st |-> "idle", corr |-> 0, fut |-> "none"]

MinOf(X) == CHOOSE x \in X : \A y \in X : x <= y

Without(q, v) == SelectSeq(q, LAMBDA x : x # v)

\* Slots no live task and no reference uses: a new asyncio.Task takes one.
FreeSlots(S) ==
    {t \in Tasks : /\ S.task[t].pc = "done"
                   /\ t # S.recv_task /\ t # S.ping_task /\ t # S.caller_waits
                   /\ \A u \in Tasks : S.task[u].waits # t}

CanOpen(S) == S.nsock < S.sock_cap /\ Cardinality(FreeSlots(S)) >= 2

IsDone(S, u) == S.task[u].pc = "done"

HasFailed(S, u) == S.task[u] = FailedTask

\* Task.cancel() called on u by another coroutine: a no-op on a finished task;
\* on a task awaiting another task the request goes to the awaited task;
\* otherwise CancelledError is thrown into u where it is suspended, at its next step.
CancelTask(S, u) ==
    IF IsDone(S, u) THEN S
    ELSE LET v == IF /\ S.task[u].pc \in {"rc_wait_ping", "rc_wait_recv"}
                     /\ ~IsDone(S, S.task[u].waits)
                  THEN S.task[u].waits ELSE u
         IN [S EXCEPT !.task[v].cancel = TRUE, !.lock_waiters = Without(@, v)]

\* Task.cancel() called by the running task on itself: _must_cancel is set and
\* CancelledError is thrown at its next await.
CancelSelf(S, t) == [S EXCEPT !.task[t].cancel = TRUE]

\* the end of "async with self._reconnect_lock" (also on an exception)
Release(S, t) ==
    IF S.lock_holder = t THEN [S EXCEPT !.lock_holder = 0, !.rc_snapshot = {}] ELSE S

\* the task's coroutine ends (it returns, or CancelledError leaves it)
Finish(S, t) == [Release(S, t) EXCEPT !.task[t] = DoneTask, !.lock_waiters = Without(@, t)]

\* the task's coroutine ends on an exception nothing catches
Fail(S, t) == [Release(S, t) EXCEPT !.task[t] = FailedTask, !.lock_waiters = Without(@, t)]

\* ---------------------------------------------------------- pending table
NoPending == [c \in CorrIds |-> 0]

\* Future.set_result / set_exception on the future of a request: how is what the
\* caller awaiting it gets.  After a failed send nobody awaits the future, and
\* what it is completed with is never retrieved.
Complete(rec, how) ==
    IF rec.st = "senderr" THEN [rec EXCEPT !.fut = "dropped"] ELSE [rec EXCEPT !.fut = how]

\* the requests whose future the table holds
InTable(S) == {r \in Reqs : \E c \in CorrIds : S.pending[c] = r}

\* a variant of FailPending that clears the table and completes no future
FailPendingKeepsFutures(S, how) == [S EXCEPT !.pending = NoPending]

\* disconnect 270-273, _reconnect 316-319:
\*   for fut in list(self._pending.values()):
\*       if not fut.done(): fut.set_exception(...)
\*   self._pending.clear()
FailPending(S, how) ==
    [S EXCEPT !.req = [r \in Reqs |->
                         IF r \in InTable(S) /\ S.req[r].fut = "pending"
                         THEN Complete(S.req[r], how) ELSE S.req[r]],
              !.pending = NoPending]

\* a variant of OpenSocket that writes again, on the new socket, the frame of
\* every request the teardown has failed
OpenSocketReplays(S) ==
    LET w == S.nsock + 1
        r == MinOf(FreeSlots(S))
        k == MinOf(FreeSlots(S) \ {r})
    IN [S EXCEPT !.ws = w, !.nsock = w, !.last_rx_set = TRUE, !.last_rx_age = 0,
                 !.task[r] = NewTask("recv"), !.task[k] = NewTask("keepalive"),
                 !.recv_task = r, !.ping_task = k,
                 !.sent = @ \cup {<<w, q>> : q \in {x \in Reqs : S.req[x].fut = "reset"}}]

\* ws_connect succeeded: self._ws = <new socket>; self._last_rx_ts = now;
\* self._recv_task = create_task(_recv_loop()); self._ping_task = create_task(_keepalive_loop())
\* (connect 237-248, _reconnect 343-355)
OpenSocket(S) ==
    LET w == S.nsock + 1
        r == MinOf(FreeSlots(S))
        k == MinOf(FreeSlots(S) \ {r})
    IN [S EXCEPT !.ws = w, !.nsock = w, !.last_rx_set = TRUE, !.last_rx_age = 0,
                 !.task[r] = NewTask("recv"), !.task[k] = NewTask("keepalive"),
                 !.recv_task = r, !.ping_task = k]

\* --------------------------------------------------------------- _reconnect
\* _reconnect returns, or raises an Exception, into the loop that called it:
\* _recv_loop 404-406 suppresses the exception and ends; _keepalive_loop 425-428
\* catches it and goes on to "await asyncio.sleep(self._keepalive_secs)".
ReturnTo(S, t) ==
    IF S.task[t].kind = "recv" THEN Finish(S, t)
    ELSE [Release(S, t) EXCEPT !.task[t].pc = "k_sleep", !.task[t].waits = 0,
                               !.task[t].attempt = 0]

NextAttempt(a) == IF a < MaxAttempt THEN a + 1 ELSE a

\* a variant of RetryTop that gives up once the attempt counter is at MaxAttempt
RetryTopGivesUp(S, t) ==
    IF S.stop \/ S.task[t].attempt >= MaxAttempt THEN ReturnTo(S, t)
    ELSE LET a == NextAttempt(S.task[t].attempt)
         IN [S EXCEPT !.task[t].attempt = a,
                      !.task[t].pc = IF S.task[t].attempt >= 1 THEN "rc_backoff" ELSE "rc_open",
                      !.rc_snapshot = {}]

\* 323-349: the head of the retry loop, up to the next suspension
\* (the backoff wait from the second attempt on, else the handshake)
RetryTop(S, t) ==
    IF S.stop THEN ReturnTo(S, t)
    ELSE LET a == NextAttempt(S.task[t].attempt)
         IN [S EXCEPT !.task[t].attempt = a,
                      !.task[t].pc = IF S.task[t].attempt >= 1 THEN "rc_backoff" ELSE "rc_open",
                      !.rc_snapshot = {}]

\* a variant of RStageFail that drops the socket and leaves the pending table
RStageFailKeepsTable(S, t) == RetryTop([S EXCEPT !.ws = 0], t)

\* 313-319, then the retry loop
RStageFail(S, t) == RetryTop(FailPending([S EXCEPT !.ws = 0], "reset"), t)

\* 310-312: close the old socket if it is open
RStageClose(S, t) ==
    IF S.ws # 0 /\ ~S.closed[S.ws]
    THEN [S EXCEPT !.closed[S.ws] = TRUE, !.task[t].pc = "rc_closing"]
    ELSE RStageFail(S, t)

\* 304-308: cancel and await self._recv_task
RStageRecv(S, t) ==
    IF S.recv_task = 0 THEN RStageClose(S, t)
    ELSE LET u == S.recv_task
             S1 == CancelTask(S, u)
         IN IF u = t THEN [CancelSelf(S, t) EXCEPT !.task[t].pc = "rc_self_recv"]
            ELSE IF HasFailed(S1, u) THEN ReturnTo(S1, t)
            ELSE IF IsDone(S1, u) THEN RStageClose([S1 EXCEPT !.recv_task = 0], t)
            ELSE [S1 EXCEPT !.task[t].pc = "rc_wait_recv", !.task[t].waits = u]

\* 298-302: cancel and await self._ping_task
RStagePing(S, t) ==
    IF S.ping_task = 0 THEN RStageRecv(S, t)
    ELSE LET u == S.ping_task
             S1 == CancelTask(S, u)
         IN IF u = t THEN [CancelSelf(S, t) EXCEPT !.task[t].pc = "rc_self_ping"]
            ELSE IF HasFailed(S1, u) THEN ReturnTo(S1, t)
            ELSE IF IsDone(S1, u) THEN RStageRecv([S1 EXCEPT !.ping_task = 0], t)
            ELSE [S1 EXCEPT !.task[t].pc = "rc_wait_ping", !.task[t].waits = u]

\* a variant of WsAlive that looks at neither the socket's closed flag nor the
\* receive task
WsAliveIgnoresClosed(S) == S.ws # 0

\* 288: "if another task already reconnected us, bail"
WsAlive(S) ==
    /\ S.ws # 0 /\ ~S.closed[S.ws]
    /\ S.recv_task # 0 /\ ~IsDone(S, S.recv_task)

\* a variant of RcLocked without the "reconnect not needed" test
RcLockedNoBail(S, t) == RStagePing([S EXCEPT !.rc_snapshot = InTable(S)], t)

\* 286-296: inside the lock
RcLocked(S, t) ==
    IF WsAlive(S) THEN ReturnTo(S, t)
    ELSE RStagePing([S EXCEPT !.rc_snapshot = InTable(S)], t)

\* 282-286: the stop check, then "async with self._reconnect_lock"
RcEnter(S, t) ==
    IF S.stop THEN ReturnTo(S, t)
    ELSE IF S.lock_holder = 0 /\ S.lock_waiters = <<>>
         THEN RcLocked([S EXCEPT !.lock_holder = t], t)
         ELSE [S EXCEPT !.task[t].pc = "rc_lock", !.lock_waiters = Append(@, t)]

\* --------------------------------------------------------------- disconnect
\* 268-273: self._ws = None, fail and clear the pending table, return
DStageFinal(S) ==
    [FailPending([S EXCEPT !.ws = 0], "cancelled")
        EXCEPT !.caller = "idle", !.caller_waits = 0, !.disc_returned = TRUE,
               !.disc_snapshot = {}]

\* an awaited task had failed: "await" raises and disconnect() ends there
DRaise(S) == [S EXCEPT !.caller = "idle", !.caller_waits = 0, !.disc_snapshot = {}]

\* 266-267: close the socket if it is open
DStageClose(S) ==
    IF S.ws # 0 /\ ~S.closed[S.ws]
    THEN [S EXCEPT !.closed[S.ws] = TRUE, !.caller = "d_closing", !.caller_waits = 0]
    ELSE DStageFinal(S)

\* 260-264: cancel and await self._recv_task
DStageRecv(S) ==
    IF S.recv_task = 0 THEN DStageClose(S)
    ELSE LET u == S.recv_task
             S1 == CancelTask(S, u)
         IN IF HasFailed(S1, u) THEN DRaise(S1)
            ELSE IF IsDone(S1, u) THEN DStageClose([S1 EXCEPT !.recv_task = 0])
            ELSE [S1 EXCEPT !.caller = "d_wait_recv", !.caller_waits = u]

\* 254-258: cancel and await self._ping_task
DStagePing(S) ==
    IF S.ping_task = 0 THEN DStageRecv(S)
    ELSE LET u == S.ping_task
             S1 == CancelTask(S, u)
         IN IF HasFailed(S1, u) THEN DRaise(S1)
            ELSE IF IsDone(S1, u) THEN DStageRecv([S1 EXCEPT !.ping_task = 0])
            ELSE [S1 EXCEPT !.caller = "d_wait_ping", !.caller_waits = u]

\* 251: self._stop.set() wakes every coroutine suspended in self._stop.wait()
\* (the backoff wait of _reconnect, 332)
StopSet(S) ==
    [S EXCEPT !.stop = TRUE,
              !.task = [t \in Tasks |->
                          IF S.task[t].pc = "rc_backoff"
                          THEN [S.task[t] EXCEPT !.pc = "rc_backoff_stop"]
                          ELSE S.task[t]]]

\* disconnect(), from the call to its first suspension (or to its return)
DisconnectBody(S) ==
    DStagePing([StopSet(S) EXCEPT !.opened = FALSE, !.disc_returned = FALSE,
                                  !.disc_snapshot = InTable(S)])

\* ------------------------------------------------------------ _send_request
\* a variant of NotConnected that does not look at the socket's closed flag
NotConnectedIgnoresClosed(S) == S.ws = 0

\* 432-433: "if not self._ws or self._ws.closed: raise RuntimeError"
NotConnected(S) == S.ws = 0 \/ S.closed[S.ws]

\* 437-454: register the future under the correlation id c drawn by _new_corr,
\* then hand the frame to the socket; send_json either writes the frame or raises
SendRequest(S, r, c, sendok) ==
    IF NotConnected(S)
    THEN [S EXCEPT !.req[r].st = "notconnected"]
    ELSE [S EXCEPT !.pending[c] = r,
                   !.req[r] = [st |-> IF sendok THEN "waiting" ELSE "senderr",
                               corr |-> c, fut |-> "pending"],
                   !.sent = IF sendok THEN @ \cup {<<S.ws, r>>} ELSE @]

\* ------------------------------------------------------------ time_tick_ff
\* _send_fire_and_forget 456-473: the tick raises when the client holds no open
\* socket (457-458) or when send_json fails (473)
TickRaises(S, sendok) == NotConnected(S) \/ ~sendok

\* a variant of TimeTickFF where a tick that raises fails the pending requests
TimeTickFFResets(S, sendok) ==
    IF TickRaises(S, sendok) THEN FailPending(S, "reset") ELSE S

\* time_tick_ff 503-505 as _keepalive_loop calls it (411-415): the frame is
\* written or the exception is caught and logged; no future is created and
\* nothing is put in self._pending either way
TimeTickFF(S, sendok) == S

\* --------------------------------------------------------------- _recv_loop
\* an inbound frame. shape: "nontext" is a frame of another type than TEXT,
\* "nonjson" a text frame json.loads rejects, "nonobject" a text frame holding
\* JSON that is not an object (a list, a string, a number, null), "object" a text
\* frame holding a JSON object. Of an object, I is the correlation id (0: none
\* or falsy), R and E say whether it has a result / an error field, notify
\* whether its M field is "Notify".
AllFrames ==
    {f \in [shape : {"object", "nontext", "nonjson", "nonobject"},
            I : 0..MaxCorr, R : BOOLEAN, E : BOOLEAN, notify : BOOLEAN] :
        f.shape # "object" => (f.I = 0 /\ ~f.R /\ ~f.E /\ ~f.notify)}

\* the object frames that are no push notification; one without correlation id
\* is handled the same whatever else it holds
Frames ==
    {f \in AllFrames : /\ f.shape = "object" /\ ~f.notify
                       /\ f.I = 0 => (~f.R /\ ~f.E)}

\* 385-386: "corr and ("R" in payload or "E" in payload)"
IsReply(f) == f.shape = "object" /\ f.I # 0 /\ (f.R \/ f.E)

\* a variant of IsNotify that looks at the message kind alone
IsNotifyWhateverElse(f) == f.shape = "object" /\ f.notify

\* 396: reached by the frames the reply branch did not take: M == "Notify"
IsNotify(f) == f.shape = "object" /\ ~IsReply(f) /\ f.notify

\* a variant of Dispatch where an error reply fails every registered request
DispatchErrorFailsAll(S, f) ==
    IF IsReply(f) /\ ~f.R /\ S.pending[f.I] # 0
    THEN [S EXCEPT !.pending = NoPending,
                   !.req = [r \in Reqs |-> IF r \in InTable(S) THEN Complete(@[r], "error")
                                           ELSE @[r]]]
    ELSE IF IsReply(f)
    THEN LET r == S.pending[f.I]
         IN IF r # 0 THEN [S EXCEPT !.pending[f.I] = 0, !.req[r] = Complete(@, "result")]
            ELSE S
    ELSE S

\* a variant of Dispatch that hands a reply to the request registered first
DispatchInSendOrder(S, f) ==
    IF IsReply(f) /\ InTable(S) # {}
    THEN LET r == MinOf(InTable(S))
         IN [S EXCEPT !.pending = [c \in CorrIds |-> IF @[c] = r THEN 0 ELSE @[c]],
                      !.req[r] = Complete(@, IF f.R THEN "result" ELSE "error")]
    ELSE S

\* 385-394: a frame with I and (R or E) pops the pending entry and completes
\* its future: with the result if R is there, else with the error
Dispatch(S, f) ==
    IF IsReply(f)
    THEN LET r == S.pending[f.I]
         IN IF r # 0 /\ S.req[r].fut = "pending"
            THEN [S EXCEPT !.pending[f.I] = 0,
                           !.req[r] = Complete(@, IF f.R THEN "result" ELSE "error")]
            ELSE [S EXCEPT !.pending[f.I] = 0]
    ELSE S

\* 375: self._last_rx_ts = self._now_epoch()
MarkRx(S) == [S EXCEPT !.last_rx_set = TRUE, !.last_rx_age = 0]

\* --------------------------------------------------------- _dispatch_notify
\* a variant of QueuePut that refuses the new item when the queue is full
QueuePutKeepsOldest(q, n) == IF Len(q) < queue_maxsize THEN Append(q, n) ELSE q

\* 477-482: put_nowait; when the queue is full the oldest item is taken out
\* and the new one put (the put finds room, nothing ran in between)
QueuePut(q, n) ==
    IF Len(q) < queue_maxsize THEN Append(q, n) ELSE Append(Tail(q), n)

\* a variant of StartListeners that starts the listener registered first only
StartListenersFirstOnly(n, hs) ==
    [h \in 1..(IF hs > 0 THEN 1 ELSE 0) |-> [n |-> n, h |-> h, st |-> "running"]]

\* 484-485: "for h in self._handlers: asyncio.create_task(h(payload))":
\* one task per registered listener, for notification n
StartListeners(n, hs) == [h \in 1..hs |-> [n |-> n, h |-> h, st |-> "running"]]

\* -------------------------------------------------------------------- login
\* A response to the login request.  status 0: the POST raised
\* aiohttp.ClientError and there is no response.  shape: "nonjson" a body that
\* resp.json() rejects, "nonobject" JSON that is not an object, "object" a JSON
\* object.  Of an object, d tells what its "D" member is: "absent" (absent,
\* null or empty), "nondict" (a non-empty list, string or number), "dict"; of
\* that dict, jt, si, jtt, ui say whether JT, SI, JTT, UI are there (and not
\* falsy), and gd what "GD" is: "absent" (absent or null), "empty" (an empty
\* list), "device" (a list whose first entry has GMI, SN and HN), "baddevice"
\* (a first entry without one of them).
LoginStatuses == {0, 200, 401, 403, 404, 500, 503}

Responses ==
    {r \in [status : LoginStatuses, shape : {"nonjson", "nonobject", "object"},
            d : {"absent", "nondict", "dict"}, jt : BOOLEAN, si : BOOLEAN,
            jtt : BOOLEAN, ui : BOOLEAN,
            gd : {"absent", "empty", "device", "baddevice"}] :
        /\ r.status = 0 => r.shape = "nonjson"
        /\ r.shape # "object" => r.d = "absent"
        /\ r.d # "dict" => (~r.jt /\ ~r.si /\ ~r.jtt /\ ~r.ui /\ r.gd = "absent")}

\* the response of a server that accepts the credentials and lists a device
GoodResponse ==
    [status |-> 200, shape |-> "object", d |-> "dict", jt |-> TRUE, si |-> TRUE,
     jtt |-> TRUE, ui |-> TRUE, gd |-> "device"]

\* what the client stores of the session and the device, and how the login
\* call that is running ended
Session == [result |-> "none", jwt |-> jwt, session_id |-> session_id,
            session_ts |-> session_ts, user_id |-> user_id, thermostat |-> thermostat]

\* a variant of LoginRun that stores the token before it looks for the session id
LoginRunStoresTokenFirst(L, r, n) ==
    IF r.status = 0 \/ r.status >= 500 \/ r.shape = "nonjson"
    THEN [L EXCEPT !.result = "CannotConnect"]
    ELSE IF r.status \in {401, 403} \/ ~(r.shape = "object" /\ r.d = "dict" /\ r.jt)
    THEN [L EXCEPT !.result = "InvalidAuth"]
    ELSE IF ~r.si
    THEN [L EXCEPT !.result = "InvalidAuth", !.jwt = n]
    ELSE IF r.gd # "device"
    THEN [L EXCEPT !.result = "ApiError", !.jwt = n, !.session_id = n]
    ELSE [result |-> "ok", jwt |-> n, session_id |-> n,
          session_ts |-> IF r.jtt THEN n ELSE 0, user_id |-> IF r.ui THEN n ELSE 0,
          thermostat |-> n]

\* login 146-221 on the response r of the n-th call: L is the stored session
\* with the call's outcome in result ("ok", or the exception that leaves login)
LoginRun(L, r, n) ==
    IF r.status = 0
    THEN \* 162-164
         [L EXCEPT !.result = "CannotConnect"]
    ELSE IF r.status \in {401, 403}
    THEN \* 166-168
         [L EXCEPT !.result = "InvalidAuth"]
    ELSE IF r.status >= 500
    THEN \* 169-171
         [L EXCEPT !.result = "CannotConnect"]
    ELSE IF r.shape = "nonjson"
    THEN \* 173-178
         [L EXCEPT !.result = "CannotConnect"]
    ELSE IF r.shape = "nonobject" \/ r.d = "nondict"
    THEN \* 180-181: root.get / d.get on a value that has no get
         [L EXCEPT !.result = "AttributeError"]
    ELSE IF ~(r.d = "dict" /\ r.jt /\ r.si)
    THEN \* 185-191
         [L EXCEPT !.result = "InvalidAuth"]
    ELSE LET L1 == [L EXCEPT !.jwt = n, !.session_id = n,
                             !.session_ts = IF r.jtt THEN n ELSE 0,
                             !.user_id = IF r.ui THEN n ELSE 0]  \* 193-196
         IN IF r.gd \in {"absent", "empty"}
            THEN \* 203-205
                 [L1 EXCEPT !.result = "ApiError"]
            ELSE IF r.gd = "baddevice"
            THEN \* 207-211: gw["GMI"] on an entry without it
                 [L1 EXCEPT !.result = "KeyError"]
            ELSE [L1 EXCEPT !.result = "ok", !.thermostat = n]  \* 207-217

\* a variant of NoThermostat that looks at the token instead of the device
NoToken == jwt = 0

\* connect 232: "if not self.thermostat"
NoThermostat == thermostat = 0

\* -------------------------------------------------------------- coordinator
\* coordinator.py 15-22: the item ids of block 15
ITEM_TARGET == 1
ITEM_AMBIENT == 2
ITEM_HVAC == 3
ITEM_PRESET == 6
ITEM_HUMID == 8
ITEM_NEXT_TIME == 9
ITEM_NEXT_VALUE == 10
ITEM_FROST == 11

KnownIds == {ITEM_TARGET, ITEM_AMBIENT, ITEM_HVAC, ITEM_PRESET, ITEM_HUMID,
             ITEM_NEXT_TIME, ITEM_NEXT_VALUE, ITEM_FROST}

\* 63, 101: the block the coordinator reads
THERMO_BLOCK == 15

\* 190: the plausible ambient readings, in tenths of a degree
AmbientMin == -500
AmbientMax == 5000

\* 82-92: the keys of the snapshot
Fields == {"hvac", "preset", "target_c", "ambient_c", "humidity",
           "next_change_mins", "next_target_c", "frost_c"}

\* The values a snapshot field holds: None, an int, a float that is a number of
\* tenths (written as its floor and its tenths digit), the strings "away" and
\* "home".
NoneV == [k |-> "None", a |-> 0, b |-> 0]
IntV(n) == [k |-> "int", a |-> n, b |-> 0]
Tenths(n) == [k |-> "float", a |-> n \div 10, b |-> n % 10]
Away == [k |-> "away", a |-> 0, b |-> 0]
Home == [k |-> "home", a |-> 0, b |-> 0]

\* The JSON values of an item's "V": null (or no "V" at all), an integer, and
\* a value that int() and float() reject (a word, a list, an object)
Null == [k |-> "null", n |-> 0]
Num(n) == [k |-> "int", n |-> n]
Junk == [k |-> "junk", n |-> 0]

\* 194-199
int_or_none(v) == IF v.k = "int" THEN IntV(v.n) ELSE NoneV

\* 201-207
preset_name(code) ==
    IF code = IntV(1) THEN Away
    ELSE IF code = IntV(2) THEN Home
    ELSE NoneV

\* 173-180
deci_to_c(v) ==
    IF v.k = "null" THEN NoneV
    ELSE IF v.k = "int" THEN Tenths(v.n)
    ELSE NoneV

\* a variant of maybe_deci_temp whose bounds are excluded
maybe_deci_temp_open(v) ==
    IF v.k = "null" THEN NoneV
    ELSE IF v.k # "int" THEN NoneV
    ELSE IF AmbientMin < v.n /\ v.n < AmbientMax THEN Tenths(v.n)
    ELSE NoneV

\* 182-192
maybe_deci_temp(v) ==
    IF v.k = "null" THEN NoneV
    ELSE IF v.k # "int" THEN NoneV
    ELSE IF AmbientMin <= v.n /\ v.n <= AmbientMax THEN Tenths(v.n)
    ELSE NoneV

\* A dict keyed by field names: {} is the function of empty domain
EmptyDict == [x \in {} |-> NoneV]
Get(d, key) == IF key \in DOMAIN d THEN d[key] ELSE NoneV
SetItem(d, key, v) == [x \in (DOMAIN d) \cup {key} |-> IF x = key THEN v ELSE d[x]]

\* 82-92: the snapshot the full parse starts from
NewState == [x \in Fields |-> NoneV]

\* An item {I, V, OT, D} of a block, or something that is no object (dict
\* FALSE).  I = 0 stands for an item without "I".
Item(i, v) == [dict |-> TRUE, I |-> i, V |-> v]
NoItem == [dict |-> FALSE, I |-> 0, V |-> Null]

\* 104-124: one turn of the loop over the items of a block
ParseItem(state, it) ==
    IF ~it.dict THEN state
    ELSE LET iid == it.I
             val == it.V
         IN IF iid = ITEM_HVAC THEN [state EXCEPT !["hvac"] = int_or_none(val)]
            ELSE IF iid = ITEM_PRESET
                 THEN [state EXCEPT !["preset"] = preset_name(int_or_none(val))]
            ELSE IF iid = ITEM_TARGET THEN [state EXCEPT !["target_c"] = deci_to_c(val)]
            ELSE IF iid = ITEM_AMBIENT
                 THEN [state EXCEPT !["ambient_c"] = maybe_deci_temp(val)]
            ELSE IF iid = ITEM_HUMID THEN [state EXCEPT !["humidity"] = int_or_none(val)]
            ELSE IF iid = ITEM_NEXT_TIME
                 THEN [state EXCEPT !["next_change_mins"] = int_or_none(val)]
            ELSE IF iid = ITEM_NEXT_VALUE
                 THEN [state EXCEPT !["next_target_c"] = deci_to_c(val)]
            ELSE IF iid = ITEM_FROST THEN [state EXCEPT !["frost_c"] = deci_to_c(val)]
            ELSE state

\* 103: the loop over the items of a block
RECURSIVE ParseItems(_, _)
ParseItems(state, items) ==
    IF items = <<>> THEN state
    ELSE ParseItems(ParseItem(state, Head(items)), Tail(items))

\* A block of the response: shape "dict" or "nondict"; of a dict, SI is its
\* "SI" (0: none) and vshape what its "V" is: "falsy" (absent, null, [], 0,
\* ""), "list" (a non-empty list, the items), "text" (a non-empty string or
\* object, which iterates over strings), "number" (a non-zero number or true)
Block(si, vshape, items) == [shape |-> "dict", SI |-> si, vshape |-> vshape, items |-> items]
NoBlock == [shape |-> "nondict", SI |-> 0, vshape |-> "falsy", items |-> <<>>]

\* 100-124: the loop over the blocks; raised: "for it in <number>" is a TypeError
RECURSIVE ParseBlocks(_, _)
ParseBlocks(state, vec) ==
    IF vec = <<>> THEN [raised |-> FALSE, state |-> state]
    ELSE LET block == Head(vec)
         IN IF block.shape # "dict" \/ block.SI # THERMO_BLOCK
            THEN ParseBlocks(state, Tail(vec))
            ELSE IF block.vshape = "number" THEN [raised |-> TRUE, state |-> state]
            ELSE IF block.vshape = "list"
                 THEN ParseBlocks(ParseItems(state, block.items), Tail(vec))
            ELSE ParseBlocks(state, Tail(vec))

\* The result R of state_read: shape "nondict" (no object), "novec" (an object
\* whose "V" is no list), "vec" (an object with a list "V", the blocks)
Read(shape, blocks) == [shape |-> shape, blocks |-> blocks]

\* 77-126
parse_state_read(r) ==
    IF r.shape # "vec" THEN [raised |-> FALSE, state |-> NewState]
    ELSE ParseBlocks(NewState, r.blocks)

\* a variant of Store that reports a change whatever the old value
StoreReportsChange(cache, field, newv) ==
    [changed |-> TRUE, cache |-> SetItem(cache, field, newv)]

\* 138-139 (and 142-143, ...): compare with the cached value, then assign
Store(cache, field, newv) ==
    [changed |-> Get(cache, field) # newv, cache |-> SetItem(cache, field, newv)]

\* 132-169: the decoding chain of _apply_notify_to_cache
ApplyItem(cache, item) ==
    LET iid == item.I
        val == item.V
    IN IF iid = ITEM_HVAC THEN Store(cache, "hvac", int_or_none(val))
       ELSE IF iid = ITEM_PRESET THEN Store(cache, "preset", preset_name(int_or_none(val)))
       ELSE IF iid = ITEM_TARGET THEN Store(cache, "target_c", deci_to_c(val))
       ELSE IF iid = ITEM_AMBIENT THEN Store(cache, "ambient_c", maybe_deci_temp(val))
       ELSE IF iid = ITEM_HUMID THEN Store(cache, "humidity", int_or_none(val))
       ELSE IF iid = ITEM_NEXT_TIME THEN Store(cache, "next_change_mins", int_or_none(val))
       ELSE IF iid = ITEM_NEXT_VALUE THEN Store(cache, "next_target_c", deci_to_c(val))
       ELSE IF iid = ITEM_FROST THEN Store(cache, "frost_c", deci_to_c(val))
       ELSE [changed |-> FALSE, cache |-> cache]

\* a variant of apply_notify_to_cache without the test of the empty cache
apply_notify_to_any_cache(cache, item) == ApplyItem(cache, item)

\* 128-169
apply_notify_to_cache(cache, item) ==
    IF DOMAIN cache = {} THEN [changed |-> FALSE, cache |-> cache]
    ELSE ApplyItem(cache, item)

\* A push notification as the listener gets it: M is its "M"; pshape tells what
\* its "P" is: "falsy" (absent, null, []), "number" (something len() rejects),
\* "short" (a list of another length than 2), "badheader" (two elements, the
\* first no object), "pair" (two elements, the first an object, the header);
\* SI is the header's "SI" (0: none); bshape tells what the second element is:
\* "nonlist", "short" (a list of another length than 2), "baditem" (two
\* elements, the second no object), "pair" ([slot, item]).
Msg(pshape, si, bshape, item) ==
    [M |-> "Notify", pshape |-> pshape, SI |-> si, bshape |-> bshape, item |-> item]

\* a variant of on_notify that applies the item whatever block the header names
on_notify_any_block(C, msg) ==
    IF msg.M # "Notify" THEN [raised |-> FALSE, coord |-> C]
    ELSE IF msg.pshape = "number" THEN [raised |-> TRUE, coord |-> C]
    ELSE IF msg.pshape # "pair" THEN [raised |-> FALSE, coord |-> C]
    ELSE IF msg.bshape # "pair" THEN [raised |-> FALSE, coord |-> C]
    ELSE LET A == apply_notify_to_cache(C.state_cache, msg.item)
         IN [raised |-> FALSE,
             coord |-> [C EXCEPT !.state_cache = A.cache,
                                 !.pushed = IF A.changed THEN @ + 1 ELSE @]]

\* 55-70: the listener the coordinator registers; pushed counts the calls of
\* async_set_updated_data
on_notify(C, msg) ==
    IF msg.M # "Notify" THEN [raised |-> FALSE, coord |-> C]
    ELSE IF msg.pshape = "number" THEN [raised |-> TRUE, coord |-> C]
    ELSE IF msg.pshape # "pair" THEN [raised |-> FALSE, coord |-> C]
    ELSE IF msg.SI # THERMO_BLOCK THEN [raised |-> FALSE, coord |-> C]
    ELSE IF msg.bshape # "pair" THEN [raised |-> FALSE, coord |-> C]
    ELSE LET A == apply_notify_to_cache(C.state_cache, msg.item)
         IN [raised |-> FALSE,
             coord |-> [C EXCEPT !.state_cache = A.cache,
                                 !.pushed = IF A.changed THEN @ + 1 ELSE @]]

\* no state_read result yet
NoRead == Read("none", <<>>)

\* ------------------------------------------------- the client's unit helpers
\* A celsius argument is written in hundredths of a degree (c = h / 100), a
\* decoded temperature as the number of tenths it is a float of (Tenths).
\* the float f, in hundredths of a degree
Hundredths(f) == 100 * f.a + 10 * f.b

\* a variant of c_to_deci that rounds to whole degrees
c_to_deci_degrees(h) == {10 * ((h + 50) \div 100)}

\* api.py 133-135: int(round(c * 10)), the outcomes it can have.  round() goes
\* to the nearest integer; when h ends in 5 the product c * 10 is the half
\* itself (round() then takes the even neighbour) or the float next to it,
\* depending on the binary value of c: either neighbour can come out.
c_to_deci(h) ==
    LET q == h \div 10
        r == h % 10
    IN IF r < 5 THEN {q} ELSE IF r > 5 THEN {q + 1} ELSE {q, q + 1}

\* api.py 137-139: float(v) / 10.0
client_deci_to_c(v) == Tenths(v)

\* ------------------------------------------------ the delays of the retry loop
\* a variant of backoff_base without the cap
backoff_base_uncapped(attempt) == 2 ^ (attempt - 2)

\* _reconnect 327: base = min(30, 2 ** (attempt - 2)), for attempt > 1
backoff_base(attempt) ==
    IF 2 ^ (attempt - 2) < BackoffCap THEN 2 ^ (attempt - 2) ELSE BackoffCap

\* _reconnect 328-329: delay = base + randbelow(1000) / 1000.0, in milliseconds,
\* for the draw k of randbelow
backoff_delay(base, k) == 1000 * base + (1000 * k) \div JitterSteps

\* The retry loop of one reconnect sequence (321-368) with its numbers.  pc is
\* the position: "top" (the loop head, 323), "wait" (the backoff wait, 332),
\* "woken" (the wait ended by the stop event), "open" (the handshake, 343),
\* "connected" (355-356), "unauthorized" (358-361), "aborted" (334), "exited"
\* (368); attempt, base and delay are the loop's variables (delay in
\* milliseconds, 0 when the attempt was made without a wait), stop is the stop
\* event, last_base the base of the attempt before, opens the handshakes begun.
NewRetryLoop ==
    [fn |-> "retry", pc |-> "top", attempt |-> 0, base |-> 0, delay |-> 0, stop |-> FALSE,
     last_base |-> 0, opens |-> 0]

\* ------------------------------------------------------- the client's writes
\* api.py 28-30
THERMO_HI_WRITE == 2
THERMO_SI == 15
THERMO_SLOT == 1
\* api.py 33, 35, 36: the client's own copy of the item ids it writes
API_ITEM_TARGET == 1
API_ITEM_HVAC == 3
API_ITEM_PRESET == 6

\* 437-448: what _send_request puts in the "P" of the envelope: the header's
\* "HI" and "SI", then the arguments; of a write these are [slot, item]
WriteArgs(slot, item) == [slot |-> slot, item |-> item]
Request(hi, si, args) == [HI |-> hi, SI |-> si, args |-> args]

\* what a command ends with before anything is sent: the request it hands to
\* _send_request, or the ValueError it raises
Sends(q) == [raised |-> FALSE, request |-> q]
ValueError ==
    [raised |-> TRUE,
     request |-> Request(0, 0, WriteArgs(0, [I |-> 0, V |-> 0, OT |-> 0, D |-> 0]))]

\* 520-529
write_item(item_id, value, ot, d) ==
    Request(THERMO_HI_WRITE, THERMO_SI,
            WriteArgs(THERMO_SLOT, [I |-> item_id, V |-> value, OT |-> ot, D |-> d]))

\* 532-534
set_target_temp(celsius) ==
    {Sends(write_item(API_ITEM_TARGET, v, 1, 0)) : v \in c_to_deci(celsius)}

\* a variant of set_mode that writes the preset item: 2 for on, 1 for off
set_mode_preset(on) == {Sends(write_item(API_ITEM_PRESET, IF on THEN 2 ELSE 1, 1, 0))}

\* 536-542
set_mode(on) == {Sends(write_item(API_ITEM_HVAC, IF on THEN 1 ELSE 0, 1, 0))}

\* 544-546
set_hvac(heat) == set_mode(heat)

\* The preset argument: a string (s) or an integer (n).
PresetStr(s) == [k |-> "str", s |-> s, n |-> 0]
PresetCode(n) == [k |-> "int", s |-> "", n |-> n]

\* 554: preset.strip().lower(), on the strings used here
StripLower(s) ==
    IF s \in {"away", "AWAY", " Away "} THEN "away"
    ELSE IF s \in {"home", "HOME", " Home "} THEN "home"
    ELSE "eco"

\* a variant of set_preset with the two codes exchanged
set_preset_swapped(preset) ==
    IF preset.k = "str"
    THEN IF StripLower(preset.s) = "away" THEN {Sends(write_item(API_ITEM_PRESET, 2, 1, 0))}
         ELSE IF StripLower(preset.s) = "home"
              THEN {Sends(write_item(API_ITEM_PRESET, 1, 1, 0))}
         ELSE {ValueError}
    ELSE IF preset.n \notin {1, 2} THEN {ValueError}
    ELSE {Sends(write_item(API_ITEM_PRESET, 3 - preset.n, 1, 0))}

\* 548-565
set_preset(preset) ==
    IF preset.k = "str"
    THEN IF StripLower(preset.s) = "away" THEN {Sends(write_item(API_ITEM_PRESET, 1, 1, 0))}
         ELSE IF StripLower(preset.s) = "home"
              THEN {Sends(write_item(API_ITEM_PRESET, 2, 1, 0))}
         ELSE {ValueError}
    ELSE IF preset.n \notin {1, 2} THEN {ValueError}
    ELSE {Sends(write_item(API_ITEM_PRESET, preset.n, 1, 0))}

\* a variant of set_timed_hold that writes an immediate set
set_timed_hold_immediate(celsius, minutes) ==
    {Sends(write_item(API_ITEM_TARGET, v, 1, 0)) : v \in c_to_deci(celsius)}

\* 567-569
set_timed_hold(celsius, minutes) ==
    {Sends(write_item(API_ITEM_TARGET, v, 2, minutes)) : v \in c_to_deci(celsius)}

\* A call of one of the collaborator-facing write commands: op is its name,
\* c its celsius argument (in hundredths), m its minutes, on its flag, p its
\* preset argument.
Cmd(op, c, m, on, p) == [op |-> op, c |-> c, m |-> m, on |-> on, p |-> p]
NoCmd == Cmd("none", 0, 0, FALSE, PresetCode(0))

\* the outcomes of the command, up to its call of _send_request
Run(cmd) ==
    IF cmd.op = "set_target_temp" THEN set_target_temp(cmd.c)
    ELSE IF cmd.op = "set_timed_hold" THEN set_timed_hold(cmd.c, cmd.m)
    ELSE IF cmd.op = "set_mode" THEN set_mode(cmd.on)
    ELSE IF cmd.op = "set_hvac" THEN set_hvac(cmd.on)
    ELSE set_preset(cmd.p)

\* no write command called yet.  pc: "idle", "raised" (the command raised
\* before _send_request), "called" (_send_request ran); frames: the "P" of the
\* frames the call wrote on the socket; by_notify and by_read: the snapshot
\* after the written item came back as a push notification, the snapshot
\* parsed from a full read that holds it.
NoWrite ==
    [fn |-> "write", pc |-> "idle", cmd |-> NoCmd, frames |-> <<>>,
     notify_done |-> FALSE, by_notify |-> NewState, changed |-> FALSE,
     read_done |-> FALSE, by_read |-> NewState]

\* 28-37: the coordinator after __init__.  poll is the position of
\* _async_update_data; pushed counts the calls of async_set_updated_data;
\* payloads is the content of the notifications dispatched so far; read_done,
\* last_read and last_result are history: a full read has completed, the
\* result of the last state_read, and how the last poll ended
NewCoordinator ==
    [ws_started |-> FALSE, state_cache |-> EmptyDict, poll |-> "idle", pushed |-> 0,
     payloads |-> <<>>, read_done |-> FALSE, last_read |-> NoRead, last_result |-> "none"]

\* no decoding function applied on its own
NoCall == [fn |-> "none"]

\* a variant of PollStore that merges the parsed fields into the old snapshot
PollMerge(C, parsed) ==
    [C EXCEPT !.state_cache =
        [x \in Fields |-> IF parsed[x] # NoneV THEN parsed[x] ELSE Get(C.state_cache, x)]]

\* 46: self._state_cache = parsed
PollStore(C, parsed) == [C EXCEPT !.state_cache = parsed]

\* ========================================================== the actions
\* login(): the call, the server's response and the run of login on it
Login(r) ==
    /\ logins < login_cap
    /\ LET L == LoginRun(Session, r, logins + 1)
       IN /\ jwt' = L.jwt /\ session_id' = L.session_id /\ session_ts' = L.session_ts
          /\ user_id' = L.user_id /\ thermostat' = L.thermostat
          /\ login_result' = L.result
    /\ logins' = logins + 1
    /\ UNCHANGED <<login_cap, connect_failed>>
    /\ UNCHANGED <<cvars, nvars, kvars, dvars>>

\* connect() 231-237: clears the stop event and awaits ws_connect
ConnectCall ==
    /\ caller = "idle" /\ ~opened
    /\ IF NoThermostat
       THEN \* 232-233: raise RuntimeError("Call login() first")
            /\ connect_failed' = TRUE
            /\ UNCHANGED <<cvars, nvars, kvars, dvars>>
            /\ UNCHANGED <<jwt, session_id, session_ts, user_id, thermostat, login_result,
                           logins, login_cap>>
       ELSE /\ CommitClient([Cur EXCEPT !.stop = FALSE, !.caller = "connecting",
                                        !.disc_returned = FALSE, !.disc_snapshot = {},
                                        !.auth_failed = FALSE])
            /\ connect_failed' = FALSE
            /\ UNCHANGED <<nvars, kvars, dvars>>
            /\ UNCHANGED <<jwt, session_id, session_ts, user_id, thermostat, login_result,
                           logins, login_cap>>

\* connect() 237-248: the handshake succeeded
ConnectOk ==
    /\ caller = "connecting" /\ CanOpen(Cur)
    /\ Commit([OpenSocket(Cur) EXCEPT !.caller = "idle", !.opened = TRUE])

\* connect() 237: ws_connect raised; the exception goes to the caller
ConnectFail ==
    /\ caller = "connecting"
    /\ Commit([Cur EXCEPT !.caller = "idle"])

\* disconnect() 250-273, up to its first suspension
DisconnectCall ==
    /\ caller = "idle"
    /\ Commit(DisconnectBody(Cur))

\* disconnect() resumes when the keepalive task it awaits has finished
DisconnectAfterPing ==
    /\ caller = "d_wait_ping" /\ IsDone(Cur, caller_waits)
    /\ Commit(IF HasFailed(Cur, caller_waits) THEN DRaise(Cur)
              ELSE DStageRecv([Cur EXCEPT !.ping_task = 0, !.caller_waits = 0]))

\* disconnect() resumes when the receive task it awaits has finished
DisconnectAfterRecv ==
    /\ caller = "d_wait_recv" /\ IsDone(Cur, caller_waits)
    /\ Commit(IF HasFailed(Cur, caller_waits) THEN DRaise(Cur)
              ELSE DStageClose([Cur EXCEPT !.recv_task = 0, !.caller_waits = 0]))

\* disconnect() resumes after "await self._ws.close()"
DisconnectAfterClose ==
    /\ caller = "d_closing"
    /\ Commit(DStageFinal(Cur))

\* a caller calls _send_request (zones_read, state_read, _write_item, ...);
\* the calls and the correlation ids are interchangeable, so they are taken in order
RequestCall(r, c, sendok) ==
    /\ req[r].st = "idle"
    /\ \A q \in Reqs : q < r => req[q].st # "idle"
    /\ \A d \in CorrIds : d < c => \E q \in Reqs : req[q].corr = d
    /\ Commit(SendRequest(Cur, r, c, sendok))

\* time passes
Tick ==
    /\ last_rx_set /\ last_rx_age < AgeCap
    /\ Commit([Cur EXCEPT !.last_rx_age = IF @ < stale_after THEN stale_after ELSE AgeCap])

\* CancelledError reaches a task suspended where nothing suppresses it
\* (or not started yet): the task ends, leaving the reconnect lock if it held it
TaskCancelled(t) ==
    /\ task[t].cancel
    /\ task[t].pc \in {"start", "r_recv", "k_sleep", "rc_lock", "rc_closing",
                        "rc_open", "rc_backoff", "rc_backoff_stop"}
    /\ Commit(Finish(Cur, t))

\* _recv_loop 370-373: the first step; "async for msg in self._ws" binds the socket
RecvStart(t) ==
    /\ task[t].kind = "recv" /\ task[t].pc = "start" /\ ~task[t].cancel
    /\ Commit(IF ws = 0 THEN Fail(Cur, t)
              ELSE [Cur EXCEPT !.task[t].pc = "r_recv", !.task[t].sock = ws])

\* _recv_loop 373-400: one inbound frame
RecvFrame(t, f) ==
    /\ task[t].pc = "r_recv" /\ ~task[t].cancel /\ ~closed[task[t].sock]
    /\ IsNotify(f) => notified < notif_cap
    /\ IF f.shape = "nonobject"
       THEN \* 385: payload.get raises, 401-406 take over
            LET S1 == MarkRx(Cur)
            IN Commit(IF S1.stop THEN Finish(S1, t) ELSE RcEnter(S1, t))
       ELSE /\ CommitClient(IF f.shape = "object" THEN Dispatch(MarkRx(Cur), f)
                            ELSE MarkRx(Cur))
            /\ notify_replied' = (notify_replied \/ (IsReply(f) /\ f.notify /\ pending[f.I] # 0))
            /\ IF IsNotify(f)
               THEN /\ notified' = notified + 1
                    /\ updates_q' = QueuePut(updates_q, notified + 1)
                    /\ dropped' = dropped + Len(updates_q) + 1 - Len(updates_q')
                    /\ listeners' = listeners \o StartListeners(notified + 1, handlers)
                    /\ UNCHANGED <<notif_cap, handlers>>
               ELSE UNCHANGED <<updates_q, notified, notif_cap, handlers, listeners, dropped>>
            /\ UNCHANGED kvars /\ UNCHANGED svars /\ UNCHANGED dvars

\* _recv_loop 373: the socket is closed (by the peer, or locally): the iteration ends
RecvEnd(t) ==
    /\ task[t].pc = "r_recv" /\ ~task[t].cancel
    /\ Commit(Finish([Cur EXCEPT !.closed[task[t].sock] = TRUE], t))

\* _recv_loop 401-406: an exception leaves the loop: a transport error (the
\* socket is closed by then) or an exception raised by the loop body on a frame
\* (the socket stays open)
RecvError(t, how) ==
    /\ task[t].pc = "r_recv" /\ ~task[t].cancel /\ ~closed[task[t].sock]
    /\ LET S1 == IF how = "transport" THEN [Cur EXCEPT !.closed[task[t].sock] = TRUE]
                 ELSE MarkRx(Cur)
       IN Commit(IF S1.stop THEN Finish(S1, t) ELSE RcEnter(S1, t))

\* _keepalive_loop 408-428: one turn of the loop, from its start or from the
\* end of the sleep: the tick (its failure is swallowed), then the staleness check
KeepaliveTurn(t) ==
    /\ task[t].kind = "keepalive" /\ task[t].pc \in {"start", "k_sleep"} /\ ~task[t].cancel
    /\ \E sendok \in BOOLEAN :
          /\ CommitClient(
                 IF stop THEN Finish(Cur, t)
                 ELSE LET S1 == TimeTickFF(Cur, sendok)
                      IN IF S1.last_rx_set /\ S1.last_rx_age > stale_after
                         THEN RcEnter(S1, t)
                         ELSE [S1 EXCEPT !.task[t].pc = "k_sleep"])
          /\ tick_failed' = IF ~stop /\ TickRaises(Cur, sendok) /\ tick_failed < tick_cap
                            THEN tick_failed + 1 ELSE tick_failed
          /\ UNCHANGED <<tick_cap, nvars>> /\ UNCHANGED svars /\ UNCHANGED dvars

\* on_update 487-488: a listener is registered
OnUpdate ==
    /\ handlers < MaxHandlers
    /\ handlers' = handlers + 1
    /\ UNCHANGED svars /\ UNCHANGED dvars
    /\ UNCHANGED <<cvars, kvars, updates_q, notified, notif_cap, listeners, notify_replied, dropped>>

\* updates() 490-492: the consumer takes the oldest queued notification
UpdatesGet ==
    /\ updates_q # <<>>
    /\ updates_q' = Tail(updates_q)
    /\ UNCHANGED svars /\ UNCHANGED dvars
    /\ UNCHANGED <<cvars, kvars, notified, notif_cap, handlers, listeners, notify_replied, dropped>>

\* a listener's task ends: the coroutine returns or raises (nobody awaits the task)
ListenerEnds(i, how) ==
    /\ i \in DOMAIN listeners /\ listeners[i].st = "running"
    /\ listeners' = [listeners EXCEPT ![i].st = how]
    /\ UNCHANGED svars /\ UNCHANGED dvars
    /\ UNCHANGED <<cvars, kvars, updates_q, notified, notif_cap, handlers, notify_replied, dropped>>

\* _async_update_data 39-44, up to the suspension in state_read; when the
\* socket was not started yet, _ensure_ws_started 49-73 first: connect()
\* returns (connok) or raises, and the listener is registered
UpdateCall(connok) ==
    /\ coord.poll = "idle"
    /\ connok => ~NoThermostat
    /\ coord.ws_started => connok
    /\ IF coord.ws_started
       THEN /\ coord' = [coord EXCEPT !.poll = "reading"]
            /\ UNCHANGED handlers
       ELSE IF connok
       THEN /\ handlers < MaxHandlers
            /\ handlers' = handlers + 1
            /\ coord' = [coord EXCEPT !.ws_started = TRUE, !.poll = "reading"]
       ELSE /\ coord' = [coord EXCEPT !.last_result = "failed"]
            /\ UNCHANGED handlers
    /\ UNCHANGED <<cvars, kvars, svars, call>>
    /\ UNCHANGED <<updates_q, notified, notif_cap, listeners, notify_replied, dropped>>

\* _async_update_data 44-47: state_read returned raw; an exception raised by
\* the parse leaves the coroutine before the assignment at 46
UpdateReply(raw) ==
    /\ coord.poll = "reading"
    /\ LET P == parse_state_read(raw)
           C == [coord EXCEPT !.poll = "idle", !.last_read = raw]
       IN coord' = IF P.raised THEN [C EXCEPT !.last_result = "raised"]
                   ELSE [PollStore(C, P.state) EXCEPT !.read_done = TRUE,
                                                      !.last_result = "ok"]
    /\ UNCHANGED <<cvars, nvars, kvars, svars, call>>

\* _async_update_data 44: state_read raised
UpdateFails ==
    /\ coord.poll = "reading"
    /\ coord' = [coord EXCEPT !.poll = "idle", !.last_result = "failed"]
    /\ UNCHANGED <<cvars, nvars, kvars, svars, call>>

\* api.py _dispatch_notify 475-485 on a notification of content m, received
\* over the socket the coordinator had opened
DispatchNotify(m) ==
    /\ coord.ws_started
    /\ notified < notif_cap
    /\ notified' = notified + 1
    /\ updates_q' = QueuePut(updates_q, notified + 1)
    /\ dropped' = dropped + Len(updates_q) + 1 - Len(updates_q')
    /\ listeners' = listeners \o StartListeners(notified + 1, handlers)
    /\ coord' = [coord EXCEPT !.payloads = Append(@, m)]
    /\ UNCHANGED <<cvars, kvars, svars, call>>
    /\ UNCHANGED <<notif_cap, handlers, notify_replied>>

\* the listener tasks not run yet
Waiting == {i \in DOMAIN listeners : listeners[i].st = "running"}

\* the task of the coordinator's listener runs: _on_notify has no suspension
\* point, and the event loop runs the tasks in the order of their creation
OnNotify(i) ==
    /\ i \in Waiting /\ \A j \in Waiting : i <= j
    /\ LET R == on_notify(coord, coord.payloads[listeners[i].n])
       IN /\ coord' = R.coord
          /\ listeners' = [listeners EXCEPT ![i].st = IF R.raised THEN "raised"
                                                       ELSE "returned"]
    /\ UNCHANGED <<cvars, kvars, svars, call>>
    /\ UNCHANGED <<updates_q, notified, notif_cap, handlers, notify_replied, dropped>>

\* _reconnect 286: the lock is acquired after waiting for it
RcLockAcquired(t) ==
    /\ task[t].pc = "rc_lock" /\ ~task[t].cancel
    /\ lock_holder = 0 /\ lock_waiters # <<>> /\ Head(lock_waiters) = t
    /\ Commit(RcLocked([Cur EXCEPT !.lock_holder = t, !.lock_waiters = Tail(@)], t))

\* _reconnect 300-302: "await self._ping_task" ends (the CancelledError it raises,
\* also when the task awaits itself, is suppressed)
RcAfterPing(t) ==
    /\ \/ task[t].pc = "rc_self_ping"
       \/ task[t].pc = "rc_wait_ping" /\ IsDone(Cur, task[t].waits)
    /\ LET S1 == [Cur EXCEPT !.task[t].cancel = FALSE, !.task[t].waits = 0]
       IN Commit(IF task[t].pc = "rc_wait_ping" /\ HasFailed(Cur, task[t].waits)
                 THEN ReturnTo(S1, t)
                 ELSE RStageRecv([S1 EXCEPT !.ping_task = 0], t))

\* _reconnect 306-308: "await self._recv_task" ends
RcAfterRecv(t) ==
    /\ \/ task[t].pc = "rc_self_recv"
       \/ task[t].pc = "rc_wait_recv" /\ IsDone(Cur, task[t].waits)
    /\ LET S1 == [Cur EXCEPT !.task[t].cancel = FALSE, !.task[t].waits = 0]
       IN Commit(IF task[t].pc = "rc_wait_recv" /\ HasFailed(Cur, task[t].waits)
                 THEN ReturnTo(S1, t)
                 ELSE RStageClose([S1 EXCEPT !.recv_task = 0], t))

\* _reconnect 312: "await self._ws.close()" ends
RcAfterClose(t) ==
    /\ task[t].pc = "rc_closing" /\ ~task[t].cancel
    /\ Commit(RStageFail(Cur, t))

\* _reconnect 343-356: the handshake succeeded
RcOpenOk(t) ==
    /\ task[t].pc = "rc_open" /\ ~task[t].cancel /\ CanOpen(Cur)
    /\ Commit(ReturnTo(OpenSocket(Cur), t))

\* _reconnect 358-361: the handshake was rejected with 401 or 403: InvalidAuth
RcOpenAuth(t) ==
    /\ task[t].pc = "rc_open" /\ ~task[t].cancel
    /\ Commit(ReturnTo([Cur EXCEPT !.auth_failed = TRUE], t))

\* _reconnect 362-366: any other failure of the handshake: log and retry
RcOpenErr(t) ==
    /\ task[t].pc = "rc_open" /\ ~task[t].cancel
    /\ Commit(RetryTop(Cur, t))

\* _reconnect 332-336: the backoff delay ran out
RcBackoffTimeout(t) ==
    /\ task[t].pc = "rc_backoff" /\ ~task[t].cancel
    /\ Commit([Cur EXCEPT !.task[t].pc = "rc_open"])

\* _reconnect 332-334: the stop event was set during the backoff wait
RcBackoffStop(t) ==
    /\ task[t].pc = "rc_backoff_stop" /\ ~task[t].cancel
    /\ Commit(ReturnTo(Cur, t))

\* the client after __init__ (95-126) and the coordinator after its own
\* (coordinator.py 28-37), with the given number of task slots, when
\* the server accepts cap handshakes
InitObjects(cap, slots, ncap, tcap, lcap) ==
    /\ coord = NewCoordinator
    /\ jwt = 0 /\ session_id = 0 /\ session_ts = 0 /\ user_id = 0 /\ thermostat = 0
    /\ login_result = "none" /\ logins = 0 /\ login_cap = lcap /\ connect_failed = FALSE
    /\ updates_q = <<>> /\ notified = 0 /\ notif_cap = ncap
    /\ tick_failed = 0 /\ tick_cap = tcap
    /\ handlers = 0 /\ listeners = <<>> /\ notify_replied = FALSE /\ dropped = 0
    /\ stop = FALSE /\ ws = 0 /\ recv_task = 0 /\ ping_task = 0
    /\ last_rx_set = FALSE /\ last_rx_age = 0
    /\ pending = NoPending
    /\ lock_holder = 0 /\ lock_waiters = <<>>
    /\ closed = [w \in Sockets |-> FALSE] /\ nsock = 0
    /\ task = [t \in 1..slots |-> DoneTask]
    /\ req = [r \in Reqs |-> IdleReq]
    /\ sent = {}
    /\ caller = "idle" /\ caller_waits = 0
    /\ opened = FALSE /\ disc_returned = FALSE /\ disc_snapshot = {}
    /\ rc_snapshot = {} /\ auth_failed = FALSE
    /\ sock_cap = cap

\* the same, when no decoding function is applied on its own
InitClient(cap, slots, ncap, tcap, lcap) ==
    InitObjects(cap, slots, ncap, tcap, lcap) /\ call = NoCall

\* the client after construction, when login is called once
InitOf(cap, slots, ncap, tcap) == InitClient(cap, slots, ncap, tcap, MaxLoginsOnce)

\* the client after construction, when no push notification arrives
InitWith(cap, slots) == InitOf(cap, slots, 0, 0)

Init == InitWith(MaxSockets, MaxTasks)

Next ==
    \/ Login(GoodResponse)
    \/ ConnectCall
    \/ ConnectOk
    \/ ConnectFail
    \/ DisconnectCall
    \/ DisconnectAfterPing
    \/ DisconnectAfterRecv
    \/ DisconnectAfterClose
    \/ \E r \in Reqs, sendok \in BOOLEAN : RequestCall(r, r, sendok)
    \/ Tick
    \/ \E t \in Tasks : TaskCancelled(t)
    \/ \E t \in Tasks : RecvStart(t)
    \/ \E t \in Tasks, f \in Frames : RecvFrame(t, f)
    \/ \E t \in Tasks : RecvEnd(t)
    \/ \E t \in Tasks, how \in {"transport", "body"} : RecvError(t, how)
    \/ \E t \in Tasks : KeepaliveTurn(t)
    \/ \E t \in Tasks : RcLockAcquired(t)
    \/ \E t \in Tasks : RcAfterPing(t)
    \/ \E t \in Tasks : RcAfterRecv(t)
    \/ \E t \in Tasks : RcAfterClose(t)
    \/ \E t \in Tasks : RcOpenOk(t)
    \/ \E t \in Tasks : RcOpenAuth(t)
    \/ \E t \in Tasks : RcOpenErr(t)
    \/ \E t \in Tasks : RcBackoffTimeout(t)
    \/ \E t \in Tasks : RcBackoffStop(t)

\* The life of a connection: connect, requests, frames, keepalive, reconnects
\* and disconnect.  _new_corr draws a different id for every request here; two
\* requests that draw the same id are looked at in CollisionSpec.
Spec == Init /\ [][Next]_vars

\* Two requests that may draw the same correlation id, while the connection is
\* lost and re-established (no disconnect, no inbound frame).
CollisionInit == InitWith(MaxSockets, MaxTasks)

CollisionNext ==
    \/ Login(GoodResponse)
    \/ ConnectCall
    \/ ConnectOk
    \/ \E r \in Reqs, c \in CorrIds, sendok \in BOOLEAN : RequestCall(r, c, sendok)
    \/ Tick
    \/ \E t \in Tasks : TaskCancelled(t)
    \/ \E t \in Tasks : RecvStart(t)
    \/ \E t \in Tasks : RecvEnd(t)
    \/ \E t \in Tasks, how \in {"transport", "body"} : RecvError(t, how)
    \/ \E t \in Tasks : KeepaliveTurn(t)
    \/ \E t \in Tasks : RcAfterPing(t)
    \/ \E t \in Tasks : RcAfterRecv(t)
    \/ \E t \in Tasks : RcAfterClose(t)
    \/ \E t \in Tasks : RcOpenOk(t)
    \/ \E t \in Tasks : RcOpenErr(t)
    \/ \E t \in Tasks : RcBackoffTimeout(t)

CollisionSpec == CollisionInit /\ [][CollisionNext]_vars

\* The client when no request is issued: the lifecycle alone, with one more socket.
IdleInit == InitWith(MaxSocketsIdle, MaxTasksIdle)

IdleNext ==
    \/ Login(GoodResponse)
    \/ ConnectCall
    \/ ConnectOk
    \/ ConnectFail
    \/ DisconnectCall
    \/ DisconnectAfterPing
    \/ DisconnectAfterRecv
    \/ DisconnectAfterClose
    \/ Tick
    \/ \E t \in Tasks : TaskCancelled(t)
    \/ \E t \in Tasks : RecvStart(t)
    \/ \E t \in Tasks, f \in Frames : RecvFrame(t, f)
    \/ \E t \in Tasks : RecvEnd(t)
    \/ \E t \in Tasks, how \in {"transport", "body"} : RecvError(t, how)
    \/ \E t \in Tasks : KeepaliveTurn(t)
    \/ \E t \in Tasks : RcLockAcquired(t)
    \/ \E t \in Tasks : RcAfterPing(t)
    \/ \E t \in Tasks : RcAfterRecv(t)
    \/ \E t \in Tasks : RcAfterClose(t)
    \/ \E t \in Tasks : RcOpenOk(t)
    \/ \E t \in Tasks : RcOpenAuth(t)
    \/ \E t \in Tasks : RcOpenErr(t)
    \/ \E t \in Tasks : RcBackoffTimeout(t)
    \/ \E t \in Tasks : RcBackoffStop(t)

IdleSpec == IdleInit /\ [][IdleNext]_vars

\* The keepalive ticks: one connection that the peer may close, requests,
\* replies, the keepalive loop; the socket never goes stale (no passing of
\* time) and the client is not stopped.
KeepaliveInit == InitOf(MaxSocketsRouting, MaxTasks, 0, MaxTickFailures)

KeepaliveNext ==
    \/ Login(GoodResponse)
    \/ ConnectCall
    \/ ConnectOk
    \/ \E r \in Reqs, c \in CorrIds, sendok \in BOOLEAN : RequestCall(r, c, sendok)
    \/ \E t \in Tasks : RecvStart(t)
    \/ \E t \in Tasks, f \in Frames : RecvFrame(t, f)
    \/ \E t \in Tasks : RecvEnd(t)
    \/ \E t \in Tasks : KeepaliveTurn(t)

KeepaliveSpec == KeepaliveInit /\ [][KeepaliveNext]_vars

\* The login: a few login calls with every kind of response, and connect()
\* called at any moment between them.
LoginInit == InitClient(MaxSocketsRouting, MaxTasks, 0, 0, MaxLogins)

LoginNext ==
    \/ \E r \in Responses : Login(r)
    \/ ConnectCall
    \/ ConnectOk
    \/ ConnectFail

LoginSpec == LoginInit /\ [][LoginNext]_vars

\* The coordinator: polls that the server answers in several ways or not at
\* all, and push notifications of every shape, applied by the coordinator's
\* listener and queued for the consumer.
CoordInit == InitOf(MaxSocketsRouting, MaxTasks, MaxNotify, 0)

\* the answers to state_read
CoordReads ==
    {Read("nondict", <<>>),
     Read("vec", <<Block(THERMO_BLOCK, "list", <<Item(ITEM_TARGET, Num(215))>>)>>),
     Read("vec", <<Block(THERMO_BLOCK, "list", <<Item(ITEM_HVAC, Num(1)),
                                                  Item(ITEM_AMBIENT, Num(190))>>)>>),
     Read("vec", <<Block(THERMO_BLOCK, "number", <<>>)>>)}

\* the push notifications
CoordMsgs ==
    {Msg("pair", THERMO_BLOCK, "pair", it) :
        it \in {Item(i, Num(1)) : i \in KnownIds \cup {0}}
                \cup {Item(ITEM_TARGET, Num(215)), Item(ITEM_AMBIENT, Num(AmbientMax + 1))}}
    \cup {Msg("pair", si, "pair", Item(ITEM_TARGET, Num(220))) : si \in {0, THERMO_BLOCK - 1}}
    \cup {Msg(p, THERMO_BLOCK, "pair", Item(ITEM_TARGET, Num(220))) :
             p \in {"falsy", "number", "short", "badheader"}}
    \cup {Msg("pair", THERMO_BLOCK, b, Item(ITEM_TARGET, Num(220))) :
             b \in {"nonlist", "short", "baditem"}}

CoordNext ==
    \/ Login(GoodResponse)
    \/ \E connok \in BOOLEAN : UpdateCall(connok)
    \/ \E raw \in CoordReads : UpdateReply(raw)
    \/ UpdateFails
    \/ \E m \in CoordMsgs : DispatchNotify(m)
    \/ \E i \in 1..(MaxNotify * MaxHandlers) : OnNotify(i)
    \/ UpdatesGet

CoordSpec == CoordInit /\ [][CoordNext]_vars

\* the sequences over S of length n at most
SeqsUpTo(S, n) == UNION {[1..k -> S] : k \in 0..n}

\* The incremental apply on its own: a baseline read of one block 15 and an
\* item, of every item id and of every kind of value; the item is applied to
\* the cache before or after the baseline was parsed.
MaxBaselineItems == 1

RawValues == {Null, Junk, Num(0), Num(1), Num(2), Num(215), Num(-5), Num(AmbientMax + 1)}

ApplyItems == {Item(i, v) : i \in KnownIds \cup {0, 4}, v \in RawValues}

ApplyReads ==
    {Read("vec", <<Block(THERMO_BLOCK, "list", items)>>) :
        items \in SeqsUpTo(ApplyItems, MaxBaselineItems)}

ApplyInit ==
    /\ InitObjects(MaxSocketsRouting, MaxTasks, 0, 0, MaxLoginsOnce)
    /\ call \in [fn : {"apply"}, pc : {"input"}, read : ApplyReads, item : ApplyItems,
                 cache : {EmptyDict}, changed : {FALSE}, after : {EmptyDict}]

\* 45-46 on the baseline read
Baseline ==
    /\ call.fn = "apply" /\ call.pc = "input"
    /\ call' = [call EXCEPT !.pc = "parsed", !.cache = parse_state_read(call.read).state]
    /\ UNCHANGED <<cvars, nvars, kvars, svars, coord>>

\* 69: _apply_notify_to_cache(item) on the cache as it is
ApplyOnce ==
    /\ call.fn = "apply" /\ call.pc \in {"input", "parsed"}
    /\ LET A == apply_notify_to_cache(call.cache, call.item)
       IN call' = [call EXCEPT !.pc = "applied", !.changed = A.changed, !.after = A.cache]
    /\ UNCHANGED <<cvars, nvars, kvars, svars, coord>>

ApplyNext == Baseline \/ ApplyOnce

ApplySpec == ApplyInit /\ [][ApplyNext]_vars

\* The full parse on its own: responses of every shape, of a few blocks of any
\* id and shape, with items of every id.
MaxBlocks == 2
MaxBlockItems == 1

ReadItems == {Item(i, v) : i \in KnownIds \cup {0, 4}, v \in {Num(1), Num(215)}} \cup {NoItem}

ReadBlocks ==
    {NoBlock}
    \cup {Block(si, vs, <<>>) : si \in {0, THERMO_BLOCK - 1, THERMO_BLOCK},
                                 vs \in {"falsy", "text", "number"}}
    \cup {Block(si, "list", items) :
             si \in {0, THERMO_BLOCK - 1, THERMO_BLOCK},
             items \in SeqsUpTo(ReadItems, MaxBlockItems) \ {<<>>}}

ParseReads ==
    {Read("nondict", <<>>), Read("novec", <<>>)}
    \cup {Read("vec", blocks) : blocks \in SeqsUpTo(ReadBlocks, MaxBlocks)}

ParseInit ==
    /\ InitObjects(MaxSocketsRouting, MaxTasks, 0, 0, MaxLoginsOnce)
    /\ call \in [fn : {"parse"}, pc : {"input"}, read : ParseReads,
                 raised : {FALSE}, state : {EmptyDict}]

\* 45: parsed = self._parse_state_read(raw)
ParseOnce ==
    /\ call.fn = "parse" /\ call.pc = "input"
    /\ LET P == parse_state_read(call.read)
       IN call' = [call EXCEPT !.pc = "parsed", !.raised = P.raised,
                               !.state = IF P.raised THEN EmptyDict ELSE P.state]
    /\ UNCHANGED <<cvars, nvars, kvars, svars, coord>>

ParseNext == ParseOnce

ParseSpec == ParseInit /\ [][ParseNext]_vars

\* The ambient reading on its own: every integer from below the lower bound to
\* above the upper one, null and a non-number, decoded by the full parse of a
\* response that carries it and by the incremental apply on a parsed snapshot.
RawSlack == 2

AmbientRaws ==
    {Null, Junk} \cup {Num(n) : n \in (AmbientMin - RawSlack)..(AmbientMax + RawSlack)}

AmbientInit ==
    /\ InitObjects(MaxSocketsRouting, MaxTasks, 0, 0, MaxLoginsOnce)
    /\ call \in [fn : {"ambient"}, v : AmbientRaws, parse_done : {FALSE}, parsed : {NoneV},
                 apply_done : {FALSE}, applied : {NoneV}, changed : {FALSE}]

\* 45: the full parse of a response whose block 15 has the ambient item
AmbientParse ==
    /\ call.fn = "ambient" /\ ~call.parse_done
    /\ LET r == Read("vec", <<Block(THERMO_BLOCK, "list", <<Item(ITEM_AMBIENT, call.v)>>)>>)
       IN call' = [call EXCEPT !.parse_done = TRUE,
                               !.parsed = parse_state_read(r).state["ambient_c"]]
    /\ UNCHANGED <<cvars, nvars, kvars, svars, coord>>

\* 69: the ambient item applied to the snapshot parsed from a response without items
AmbientApply ==
    /\ call.fn = "ambient" /\ ~call.apply_done
    /\ LET A == apply_notify_to_cache(parse_state_read(Read("vec", <<>>)).state,
                                      Item(ITEM_AMBIENT, call.v))
       IN call' = [call EXCEPT !.apply_done = TRUE, !.applied = A.cache["ambient_c"],
                               !.changed = A.changed]
    /\ UNCHANGED <<cvars, nvars, kvars, svars, coord>>

AmbientNext == AmbientParse \/ AmbientApply

AmbientSpec == AmbientInit /\ [][AmbientNext]_vars

\* The deci-degree encoding on its own: a celsius value is encoded and the result
\* decoded, or a deci-degree value is decoded and the result encoded.
CelsiusInputs == (0 - MaxCenti)..MaxCenti
DeciInputs == (0 - MaxDeci)..MaxDeci

DeciInit ==
    /\ InitObjects(MaxSocketsRouting, MaxTasks, 0, 0, MaxLoginsOnce)
    /\ call \in [fn : {"deci"}, from : {"celsius"}, pc : {"input"}, input : CelsiusInputs,
                 mid : {0}, out : {0}]
            \cup [fn : {"deci"}, from : {"deci"}, pc : {"input"}, input : DeciInputs,
                  mid : {0}, out : {0}]

\* c_to_deci on the input, or on what deci_to_c returned
EncodeCall ==
    /\ call.fn = "deci"
    /\ \/ /\ call.from = "celsius" /\ call.pc = "input"
          /\ \E v \in c_to_deci(call.input) : call' = [call EXCEPT !.pc = "half", !.mid = v]
       \/ /\ call.from = "deci" /\ call.pc = "half"
          /\ \E v \in c_to_deci(call.mid) : call' = [call EXCEPT !.pc = "done", !.out = v]
    /\ UNCHANGED <<cvars, nvars, kvars, svars, coord>>

\* deci_to_c on the input, or on what c_to_deci returned
DecodeCall ==
    /\ call.fn = "deci"
    /\ \/ /\ call.from = "deci" /\ call.pc = "input"
          /\ call' = [call EXCEPT !.pc = "half", !.mid = Hundredths(client_deci_to_c(call.input))]
       \/ /\ call.from = "celsius" /\ call.pc = "half"
          /\ call' = [call EXCEPT !.pc = "done", !.out = Hundredths(client_deci_to_c(call.mid))]
    /\ UNCHANGED <<cvars, nvars, kvars, svars, coord>>

DeciNext == EncodeCall \/ DecodeCall

DeciSpec == DeciInit /\ [][DeciNext]_vars

\* The write commands: login, connect, one write command, and what the
\* coordinator decodes when the written item comes back.
WriteInit ==
    /\ InitObjects(MaxSocketsRouting, MaxTasks, 0, 0, MaxLoginsOnce)
    /\ call = NoWrite

PresetArgs ==
    {PresetStr(s) : s \in {"away", "AWAY", " Away ", "home", "HOME", " Home ", "eco"}}
    \cup {PresetCode(n) : n \in 0..MaxPresetCode}

WriteCmds ==
    {Cmd("set_target_temp", c, 0, FALSE, PresetCode(0)) : c \in CelsiusInputs}
    \cup {Cmd("set_timed_hold", c, m, FALSE, PresetCode(0)) :
             c \in {h \in CelsiusInputs : h % 125 = 0}, m \in 0..MaxMinutes}
    \cup {Cmd(op, 0, 0, on, PresetCode(0)) : op \in {"set_mode", "set_hvac"}, on \in BOOLEAN}
    \cup {Cmd("set_preset", 0, 0, FALSE, p) : p \in PresetArgs}

\* a write command is called: it raises, or it calls _send_request (432-454),
\* which raises without a socket and else registers the future and hands the
\* frame to the socket
WriteCall ==
    /\ call.fn = "write" /\ call.pc = "idle"
    /\ req[1].st = "idle"
    /\ \E cmd \in WriteCmds, sendok \in BOOLEAN : \E o \in Run(cmd) :
          IF o.raised
          THEN /\ call' = [call EXCEPT !.pc = "raised", !.cmd = cmd]
               /\ UNCHANGED cvars
          ELSE LET S == SendRequest(Cur, 1, 1, sendok)
               IN /\ CommitClient(S)
                  /\ call' = [call EXCEPT !.pc = "called", !.cmd = cmd,
                                          !.frames = IF <<ws, 1>> \in S.sent
                                                     THEN <<o.request>> ELSE <<>>]
    /\ UNCHANGED <<nvars, kvars, svars, coord>>

\* the item of the frame the command wrote, as the server sends it back
Echo == LET it == call.frames[1].args.item IN Item(it.I, Num(it.V))

\* the coordinator after a first poll whose read held no item
Polled == PollStore(NewCoordinator, parse_state_read(Read("vec", <<>>)).state)

\* the written item comes back as a push notification for the block it was
\* written to: the coordinator's listener (coordinator.py 55-70) gets it
EchoNotify ==
    /\ call.fn = "write" /\ call.pc = "called" /\ Len(call.frames) = 1
    /\ ~call.notify_done
    /\ LET R == on_notify(Polled, Msg("pair", call.frames[1].SI, "pair", Echo))
       IN call' = [call EXCEPT !.notify_done = TRUE, !.by_notify = R.coord.state_cache,
                               !.changed = (R.coord.pushed = 1)]
    /\ UNCHANGED <<cvars, nvars, kvars, svars, coord>>

\* the written item is in the block of the next full read
\* (coordinator.py 44-46)
EchoRead ==
    /\ call.fn = "write" /\ call.pc = "called" /\ Len(call.frames) = 1
    /\ ~call.read_done
    /\ LET P == parse_state_read(Read("vec", <<Block(call.frames[1].SI, "list", <<Echo>>)>>))
       IN call' = [call EXCEPT !.read_done = TRUE,
                               !.by_read = PollStore(Polled, P.state).state_cache]
    /\ UNCHANGED <<cvars, nvars, kvars, svars, coord>>

WriteNext ==
    \/ Login(GoodResponse)
    \/ ConnectCall
    \/ ConnectOk
    \/ WriteCall
    \/ EchoNotify
    \/ EchoRead

WriteSpec == WriteInit /\ [][WriteNext]_vars

\* The retry loop of _reconnect on its own, with its delays: a sequence of up to
\* MaxRetries attempts, any draw of the jitter, the stop event set at any time.
BackoffInit ==
    /\ InitObjects(MaxSocketsRouting, MaxTasks, 0, 0, MaxLoginsOnce)
    /\ call = NewRetryLoop

\* 323-349: the head of the loop up to the next suspension
BackoffTop ==
    /\ call.fn = "retry" /\ call.pc = "top"
    /\ IF call.stop THEN call' = [call EXCEPT !.pc = "exited"]
       ELSE /\ call.attempt < MaxRetries
            /\ IF call.attempt + 1 > 1
               THEN \E k \in 0..(JitterSteps - 1) :
                       call' = [call EXCEPT !.attempt = @ + 1, !.pc = "wait",
                                            !.last_base = call.base,
                                            !.base = backoff_base(call.attempt + 1),
                                            !.delay = backoff_delay(backoff_base(call.attempt + 1), k)]
               ELSE call' = [call EXCEPT !.attempt = @ + 1, !.pc = "open", !.opens = @ + 1]
    /\ UNCHANGED <<cvars, nvars, kvars, svars, coord>>

\* 332, 335-336: the delay ran out (TimeoutError): on to the handshake
BackoffTimeout ==
    /\ call.fn = "retry" /\ call.pc = "wait"
    /\ call' = [call EXCEPT !.pc = "open", !.opens = @ + 1]
    /\ UNCHANGED <<cvars, nvars, kvars, svars, coord>>

\* disconnect 251: the stop event is set; it wakes the backoff wait
BackoffStopSet ==
    /\ call.fn = "retry" /\ ~call.stop
    /\ call.pc \in {"top", "wait", "open"}
    /\ call' = [call EXCEPT !.stop = TRUE, !.pc = IF call.pc = "wait" THEN "woken" ELSE @]
    /\ UNCHANGED <<cvars, nvars, kvars, svars, coord>>

\* 332-334: the wait returned because the stop event is set: return
BackoffAborted ==
    /\ call.fn = "retry" /\ call.pc = "woken"
    /\ call' = [call EXCEPT !.pc = "aborted"]
    /\ UNCHANGED <<cvars, nvars, kvars, svars, coord>>

\* 343-366: the handshake ends: accepted (return), rejected with 401/403
\* (InvalidAuth), or failed otherwise (log, next turn of the loop, which
\* computes its delay anew)
BackoffOpened(how) ==
    /\ call.fn = "retry" /\ call.pc = "open"
    /\ call' = [call EXCEPT !.pc = IF how = "ok" THEN "connected"
                                   ELSE IF how = "auth" THEN "unauthorized" ELSE "top",
                            !.delay = IF how = "error" THEN 0 ELSE @]
    /\ UNCHANGED <<cvars, nvars, kvars, svars, coord>>

BackoffNext ==
    \/ BackoffTop
    \/ BackoffTimeout
    \/ BackoffStopSet
    \/ BackoffAborted
    \/ \E how \in {"ok", "auth", "error"} : BackoffOpened(how)

BackoffSpec == BackoffInit /\ [][BackoffNext]_vars

\* The routing of inbound frames: one connection, requests, listeners, every
\* shape of frame, a few push notifications, the passing of time; no disconnect,
\* the keepalive loop and the listeners' tasks left where they start.
RoutingInit == InitOf(MaxSocketsRouting, MaxTasks, MaxNotify, 0)

RoutingNext ==
    \/ Login(GoodResponse)
    \/ ConnectCall
    \/ ConnectOk
    \/ OnUpdate
    \/ \E r \in Reqs, c \in CorrIds, sendok \in BOOLEAN : RequestCall(r, c, sendok)
    \/ \E t \in Tasks : RecvStart(t)
    \/ \E t \in Tasks, f \in AllFrames : RecvFrame(t, f)
    \/ Tick
    \/ UpdatesGet

RoutingSpec == RoutingInit /\ [][RoutingNext]_vars

\* The listeners: one connection, requests, listeners that return, raise or
\* hang, and the frames that matter to them: a push notification, a reply.
ListenerInit == InitOf(MaxSocketsRouting, MaxTasks, MaxNotify, 0)

ListenerFrames ==
    {f \in AllFrames : /\ f.shape = "object" /\ ~f.E
                       /\ IF f.notify THEN f.I = 0 /\ ~f.R ELSE IsReply(f)}

ListenerNext ==
    \/ Login(GoodResponse)
    \/ ConnectCall
    \/ ConnectOk
    \/ OnUpdate
    \/ \E r \in Reqs, c \in CorrIds, sendok \in BOOLEAN : RequestCall(r, c, sendok)
    \/ \E t \in Tasks : RecvStart(t)
    \/ \E t \in Tasks, f \in ListenerFrames : RecvFrame(t, f)
    \/ \E i \in 1..(MaxNotify * MaxHandlers), how \in {"returned", "raised"} :
           ListenerEnds(i, how)

ListenerSpec == ListenerInit /\ [][ListenerNext]_vars

\* The notification queue being filled: one connection, no request, no
\* listener, more push notifications than the queue holds, a consumer.
QueueInit == InitOf(MaxSocketsRouting, MaxTasks, MaxNotifyFull, 0)

QueueNext ==
    \/ Login(GoodResponse)
    \/ ConnectCall
    \/ ConnectOk
    \/ \E t \in Tasks : RecvStart(t)
    \/ \E t \in Tasks, f \in {g \in AllFrames : IsNotify(g) /\ g.I = 0 /\ ~g.R /\ ~g.E} :
           RecvFrame(t, f)
    \/ UpdatesGet

QueueSpec == QueueInit /\ [][QueueNext]_vars

\* ============================================================ the claims
\* the record of the state after a step
CurNext ==
    [stop |-> stop', ws |-> ws', recv_task |-> recv_task', ping_task |-> ping_task',
     last_rx_set |-> last_rx_set', last_rx_age |-> last_rx_age', pending |-> pending',
     lock_holder |-> lock_holder', lock_waiters |-> lock_waiters', closed |-> closed',
     nsock |-> nsock', sock_cap |-> sock_cap', task |-> task', req |-> req', sent |-> sent',
     caller |-> caller',
     caller_waits |-> caller_waits', opened |-> opened', disc_returned |-> disc_returned',
     disc_snapshot |-> disc_snapshot', rc_snapshot |-> rc_snapshot',
     auth_failed |-> auth_failed']

\* receive loops / keepalive loops that are running (created and inside their loop)
RecvLoops(S) == {t \in Tasks : S.task[t].kind = "recv" /\ S.task[t].pc \in {"start", "r_recv"}}

KeepaliveLoops(S) == {t \in Tasks : S.task[t].kind = "keepalive" /\ S.task[t].pc \in {"start", "k_sleep"}}

\* Connected: not stopped, the socket open, the receive task and the keepalive
\* task the client holds both running
Connected(S) ==
    /\ ~S.stop
    /\ S.ws # 0 /\ ~S.closed[S.ws]
    /\ S.recv_task \in RecvLoops(S)
    /\ S.ping_task \in KeepaliveLoops(S)

\* a reconnect sequence is running in task t: it is past the lock and the
\* "WS alive" check, in the teardown or in the retry loop
Reconnecting(S, t) ==
    /\ S.lock_holder = t
    /\ S.task[t].pc \in {"rc_self_ping", "rc_wait_ping", "rc_self_recv", "rc_wait_recv",
                          "rc_closing", "rc_open", "rc_backoff", "rc_backoff_stop"}

\* C2 (as stated): while the client is connected, a staleness check of the
\* keepalive loop made when the last inbound frame is more than stale_after
\* seconds old makes the client enter Reconnecting.
C2_StaleCheckReconnects ==
    [][\A t \in Tasks :
          (/\ Connected(Cur) /\ task[recv_task].pc = "r_recv"
           /\ last_rx_age > stale_after /\ KeepaliveTurn(t))
              => Reconnecting(CurNext, t)]_vars

\* C4 (as stated): after a reconnect sequence ended on a 401/403, no background
\* task starts another socket-open attempt until connect() is called again.
C4_AuthFailureIsTerminal ==
    [][auth_failed =>
          \A t \in Tasks : task'[t].pc = "rc_open" => task[t].pc = "rc_open"]_vars

\* C5 (as stated): at most one receive loop and at most one keepalive loop are
\* running, and exactly one of each while Connected.
C5_OneLoopOfEachKind ==
    /\ Cardinality(RecvLoops(Cur)) <= 1
    /\ Cardinality(KeepaliveLoops(Cur)) <= 1
    /\ Connected(Cur) => Cardinality(RecvLoops(Cur)) = 1 /\ Cardinality(KeepaliveLoops(Cur)) = 1

\* C6 (as stated): from the return of disconnect() to the next connect() call the
\* client holds no open socket and no receive or keepalive loop is running.
C6_StaysDownAfterDisconnect ==
    disc_returned =>
        /\ ws = 0 \/ closed[ws]
        /\ RecvLoops(Cur) = {}
        /\ KeepaliveLoops(Cur) = {}

\* disconnect() is suspended at one of its awaits
DiscPcs == {"d_wait_ping", "d_wait_recv", "d_closing"}

\* the requests that were in the pending table when the disconnect() that is
\* running (or called in this step) was called
DiscPending == IF caller \in DiscPcs THEN disc_snapshot ELSE IF DisconnectCall THEN InTable(Cur) ELSE {}

\* C1 (as stated): every request pending when disconnect() is called fails with
\* the cancellation / connection-reset error (none gets a result, none is left
\* waiting), and the pending table is empty when disconnect() returns.
C1_AllPendingAtCallFail ==
    [][\A r \in DiscPending :
          /\ (req[r].fut = "pending" /\ req'[r].fut # "pending")
                 => req'[r].fut \in {"cancelled", "reset", "dropped"}
          /\ disc_returned' => req'[r].fut # "pending" /\ pending' = NoPending]_vars

\* C1 (amended): the step in which disconnect() returns fails, with the
\* cancellation error, every request still in the pending table at that step,
\* touches no other request and leaves the table empty (a request that was pending
\* at the call and is no longer in the table at that step keeps what it got: the
\* reply or error frame the receive loop processed before it was cancelled).
C1_DisconnectFailsTable ==
    [][(disc_returned' /\ (caller \in DiscPcs \/ DisconnectCall)) =>
          /\ pending' = NoPending
          /\ \A r \in InTable(Cur) :
                 req[r].fut = "pending" => req'[r].fut \in {"cancelled", "dropped"}
          /\ \A r \in Reqs \ InTable(Cur) : req'[r] = req[r]]_vars

\* C1 witness: disconnect() has returned and cancelled MaxReq pending requests
C1_Witness == disc_returned /\ \A r \in Reqs : req[r].st = "waiting" /\ req[r].fut = "cancelled"

\* the step in which task t, at the end of the teardown of _reconnect, makes the
\* first socket-open attempt of its reconnect sequence
FirstAttempt(t) ==
    /\ task'[t].pc = "rc_open" /\ task'[t].attempt = 1
    /\ task[t].pc \notin {"rc_open", "rc_backoff"}

\* the requests that were in the pending table when the reconnect sequence of
\* task t entered the teardown
RcPending(t) == IF lock_holder = t THEN rc_snapshot ELSE InTable(Cur)

\* C7 (as stated): every request pending when the client enters Reconnecting
\* has been failed with the connection-reset error, and the table is empty, when
\* the first socket-open attempt is made.
C7_AllPendingAtEntryReset ==
    [][\A t \in Tasks : FirstAttempt(t) =>
          /\ pending' = NoPending
          /\ \A r \in RcPending(t) : req'[r].fut \in {"reset", "cancelled", "dropped"}]_vars

\* C8: a request frame is written only by the _send_request call that issues the
\* request, on the socket the client holds at that call; no step of a reconnect
\* writes a frame of an earlier request, so each request has at most one frame.
C8_NoReplay ==
    /\ [](\A r \in Reqs : Cardinality({p \in sent : p[2] = r}) <= 1)
    /\ [][\A p \in sent' \ sent :
              /\ req[p[2]].st = "idle" /\ req'[p[2]].st = "waiting"
              /\ p[1] = ws /\ ws' = ws]_vars

\* C8 witness: a request sent on socket 1 was reset, the client holds socket 2
\* and a later request was sent on it
C8_Witness ==
    /\ opened /\ ~stop /\ ws = 2 /\ ~closed[2]
    /\ sent = {<<1, 1>>, <<2, 2>>} /\ req[1].fut = "reset"

\* C9: while the stop event is not set, a handshake that fails with anything but
\* 401/403 leads to the backoff wait whatever the number of attempts made, the
\* end of the backoff wait leads to the next handshake, and an accepted handshake
\* leaves the client Connected with the staleness clock at the reconnect time.
C9_RetriesUntilConnected ==
    [][\A t \in Tasks :
          /\ (RcOpenErr(t) /\ ~stop) =>
                 /\ task'[t].pc = "rc_backoff" /\ lock_holder' = t
                 /\ task'[t].attempt = NextAttempt(task[t].attempt)
          /\ RcBackoffTimeout(t) => task'[t].pc = "rc_open"
          /\ (RcOpenOk(t) /\ ~stop) =>
                 Connected(CurNext) /\ last_rx_set' /\ last_rx_age' = 0]_vars

\* C9 witness: after failed attempts and a backoff wait the reconnect sequence is
\* in a handshake that the server can accept, the attempt counter at its cap
C9_Witness ==
    \E t \in Tasks : /\ task[t].pc = "rc_open" /\ task[t].attempt = MaxAttempt
                     /\ ~task[t].cancel /\ ~stop /\ CanOpen(Cur) /\ lock_holder = t

\* no socket, no tasks, no pending request
TornDown(S) == S.ws = 0 /\ S.recv_task = 0 /\ S.ping_task = 0 /\ S.pending = NoPending

\* C10 (as stated): on a client without socket, tasks and pending requests, disconnect()
\* returns at once, without error, and changes nothing but the stop event (set);
\* and a disconnect() called right after disconnect() returned changes nothing.
C10_DisconnectIdempotent ==
    /\ []((caller = "idle" /\ TornDown(Cur)) =>
             DisconnectBody(Cur) = [StopSet(Cur) EXCEPT !.opened = FALSE,
                                                       !.disc_returned = TRUE,
                                                       !.disc_snapshot = {}])
    /\ [][(disc_returned' /\ ~disc_returned) => DisconnectBody(CurNext) = CurNext]_vars


\* ------------------------------------------------------------------ liveness
\* The event loop runs every task that is ready and every timer that is due: a
\* step of a background task, or of disconnect(), that stays possible is taken,
\* and time passes.  Nothing is assumed of the server (frames, socket errors,
\* handshake outcomes) nor of the caller (connect, disconnect, requests).
Fairness ==
    /\ WF_vars(Tick)
    /\ WF_vars(DisconnectAfterPing) /\ WF_vars(DisconnectAfterRecv)
    /\ WF_vars(DisconnectAfterClose)
    /\ \A t \in 1..MaxTasks :
          /\ WF_vars(TaskCancelled(t)) /\ WF_vars(RecvStart(t))
          /\ WF_vars(KeepaliveTurn(t)) /\ WF_vars(RcLockAcquired(t))
          /\ WF_vars(RcAfterPing(t)) /\ WF_vars(RcAfterRecv(t))
          /\ WF_vars(RcAfterClose(t)) /\ WF_vars(RcBackoffTimeout(t))
          /\ WF_vars(RcBackoffStop(t))

FairSpec == Init /\ [][Next]_vars /\ Fairness

\* CollisionSpec with the scheduling of FairSpec
FairCollisionSpec == CollisionInit /\ [][CollisionNext]_vars /\ Fairness

\* C3 (as stated): a request registered in the pending table, on a socket that
\* has been silent for longer than the staleness window, is eventually completed
\* (by a reply, an error frame or a connection reset), unless a frame arrives
\* after all or the client is stopped.
C3_EveryRequestCompletes ==
    \A r \in Reqs :
        (/\ req[r].st = "waiting" /\ req[r].fut = "pending" /\ r \in InTable(Cur)
         /\ last_rx_age > stale_after)
            ~> (req[r].fut # "pending" \/ stop \/ last_rx_age <= stale_after)

\* ------------------------------------------------------- requests and frames
\* C11: a request issued while the client holds no socket, or a closed one,
\* fails at once with the not-connected error: no future is created, no
\* correlation id drawn, no frame written, and the pending table is what it was.
C11_NotConnectedFailsAtOnce ==
    [][\A r \in Reqs :
          (req[r].st = "idle" /\ req'[r].st # "idle" /\ (ws = 0 \/ closed[ws]))
              => /\ req'[r] = [st |-> "notconnected", corr |-> 0, fut |-> "none"]
                 /\ pending' = pending
                 /\ sent' = sent]_vars

\* C11 witness: the second request was refused on a socket that had closed
\* while the first one was, and still is, in the pending table
C11_Witness ==
    /\ ws # 0 /\ closed[ws]
    /\ req[2].st = "notconnected"
    /\ req[1].st = "waiting" /\ req[1].fut = "pending" /\ 1 \in InTable(Cur)

\* a request is live: its frame was written and its caller awaits the future
Live(r) == req[r].st = "waiting" /\ req[r].fut = "pending"

\* C12 (as stated): a correlation id is not drawn again while a request with
\* that id is live: no step replaces the table entry of a live request by
\* another request, and no two live requests bear the same id.
C12_NoLiveEntryOverwritten ==
    /\ [][\A c \in CorrIds :
              (pending[c] # 0 /\ Live(pending[c])) => pending'[c] \in {0, pending[c]}]_vars
    /\ [](\A r, q \in Reqs : (r # q /\ Live(r) /\ Live(q)) => req[r].corr # req[q].corr)

\* every correlation id drawn so far was drawn once
DistinctIds == \A r, q \in Reqs : (r # q /\ req[r].corr # 0) => req[r].corr # req[q].corr

\* the live request r is registered in the pending table under its id
Registered(r) == Live(r) /\ pending[req[r].corr] = r

\* C13: replies are matched by correlation id, not by send order.  While the
\* ids drawn are distinct every live request is registered under its id; a reply
\* frame completes the registered request bearing the frame's id, with the
\* result if the frame has one and else with its error, and leaves every other
\* live request as it was; and nothing but a reply bearing its id (no other
\* reply, no reply to a keepalive tick, no notification) changes a live request.
C13_RepliesMatchedById ==
    /\ [](DistinctIds => \A r \in Reqs : Live(r) => Registered(r))
    /\ [][\A t \in Tasks, f \in AllFrames :
              (IsReply(f) /\ RecvFrame(t, f))
                  => \A r \in Reqs :
                        Registered(r)
                            => IF f.I = req[r].corr
                               THEN req'[r] = [req[r] EXCEPT
                                                  !.fut = IF f.R THEN "result" ELSE "error"]
                               ELSE req'[r] = req[r]]_vars
    /\ [][\A r \in Reqs :
              (Live(r) /\ req'[r] # req[r])
                  => \E t \in Tasks, f \in AllFrames :
                        IsReply(f) /\ f.I = req[r].corr /\ RecvFrame(t, f)]_vars

\* C13 witness: two requests were sent with distinct ids, a notification came
\* in, and the reply to the second request was delivered while the first one,
\* sent before it, still waits
C13_Witness ==
    /\ DistinctIds /\ notified >= 1
    /\ Registered(1) /\ sent = {<<1, 1>>, <<1, 2>>}
    /\ req[2].st = "waiting" /\ req[2].fut = "result"

\* C14: a frame that completes a pending request (with its result or its error)
\* is consumed there: the step that receives it puts nothing on the
\* notification queue and starts no listener, also when its kind is Notify.
C14_ReplyIsNoNotification ==
    [][\A t \in Tasks, f \in AllFrames :
          (IsReply(f) /\ pending[f.I] # 0 /\ RecvFrame(t, f))
              => /\ req'[pending[f.I]].fut # "pending" /\ pending'[f.I] = 0
                 /\ updates_q' = updates_q /\ listeners' = listeners
                 /\ notified' = notified]_vars

\* C14 witness: a listener is registered, a frame of kind Notify completed a
\* pending request, and nothing was queued nor any listener started
C14_Witness ==
    /\ notify_replied /\ handlers >= 1
    /\ \E r \in Reqs : req[r].st = "waiting" /\ req[r].fut \in {"result", "error"}
    /\ updates_q = <<>> /\ listeners = <<>> /\ notified = 0

\* C15 (as stated): a frame of kind Notify that is no reply to a pending
\* request (it has no correlation id, or one the pending table does not hold)
\* is appended to the notification queue and one task is started for each
\* registered listener, whether or not the frame has a result or an error field.
C15_EveryNotifyIsDelivered ==
    [][\A t \in Tasks, f \in AllFrames :
          (/\ f.shape = "object" /\ f.notify
           /\ f.I = 0 \/ pending[f.I] = 0
           /\ RecvFrame(t, f))
              => /\ notified' = notified + 1
                 /\ updates_q' = Append(updates_q, notified')
                 /\ Len(listeners') = Len(listeners) + handlers]_vars

\* a frame that is neither a reply nor a push notification
Unhandled(f) == ~IsReply(f) /\ ~(f.shape = "object" /\ f.notify)

\* C16 (as stated): a frame that is neither a reply nor a push notification (a
\* frame that is not text, text that is not JSON, JSON of any other shape) is
\* ignored: the step that receives it changes nothing but the time of the last
\* reception; the pending table, the requests, the notification queue, the
\* listeners and the socket are what they were, the receive loop awaits the
\* next frame and no task has entered _reconnect.
C16_UnhandledFrameIsIgnored ==
    [][\A t \in Tasks, f \in AllFrames :
          (Unhandled(f) /\ RecvFrame(t, f))
              => /\ pending' = pending /\ req' = req
                 /\ updates_q' = updates_q /\ listeners' = listeners
                 /\ ws' = ws /\ closed' = closed /\ recv_task' = recv_task
                 /\ task' = task /\ task'[t].pc = "r_recv"]_vars

\* C17: a reply that has an error field and no result, for an id the pending
\* table holds, fails the request registered under that id with the error (its
\* caller, awaiting the future, gets it), removes that entry and no other,
\* leaves every other request as it was, and touches neither the socket nor
\* the background tasks.
C17_ErrorReplyFailsOneRequest ==
    [][\A t \in Tasks, f \in AllFrames :
          (IsReply(f) /\ f.E /\ ~f.R /\ pending[f.I] # 0 /\ RecvFrame(t, f))
              => LET r == pending[f.I]
                 IN /\ req'[r] = [req[r] EXCEPT
                                     !.fut = IF req[r].st = "waiting" THEN "error"
                                             ELSE "dropped"]
                    /\ pending' = [pending EXCEPT ![f.I] = 0]
                    /\ \A q \in Reqs \ {r} : req'[q] = req[q]
                    /\ stop' = stop /\ ws' = ws /\ closed' = closed
                    /\ recv_task' = recv_task /\ ping_task' = ping_task
                    /\ task' = task]_vars

\* C17 witness: of two registered requests the first was failed by an error
\* reply; the second is still registered and the receive loop awaits a frame
C17_Witness ==
    /\ req[1].st = "waiting" /\ req[1].fut = "error" /\ pending[req[1].corr] = 0
    /\ Registered(2)
    /\ ws # 0 /\ ~closed[ws] /\ recv_task # 0 /\ task[recv_task].pc = "r_recv"

\* C18: the notification queue never holds more than 200 entries.  A push
\* notification that arrives while it holds 200 takes the place of the oldest
\* one: after the step the queue is the former one without its head, followed
\* by the new notification; below 200 the new notification is appended.  So
\* the queue holds, in arrival order, the most recent notifications not yet
\* consumed.  The step that receives the notification ends with the receive
\* loop awaiting the next frame, whatever the queue held.
C18_QueueBounded ==
    /\ [](Len(updates_q) <= queue_maxsize)
    /\ [](\A i \in 1..Len(updates_q) : updates_q[i] = notified - Len(updates_q) + i)
    /\ [][\A t \in Tasks, f \in AllFrames :
              (IsNotify(f) /\ RecvFrame(t, f))
                  => /\ notified' = notified + 1
                     /\ updates_q' = Append(IF Len(updates_q) = queue_maxsize
                                             THEN Tail(updates_q) ELSE updates_q, notified')
                     /\ task'[t].pc = "r_recv"]_vars

\* C18 witness: more notifications arrived than the queue holds, none was
\* consumed before the queue was full: the three oldest were dropped and the
\* queue holds the last 200
C18_Witness ==
    /\ Len(updates_q) = queue_maxsize /\ dropped = 3
    /\ notified = queue_maxsize + 3 /\ Head(updates_q) = 4

\* the tasks started for listener h on notification n
StartedFor(ls, n, h) == {i \in DOMAIN ls : ls[i].n = n /\ ls[i].h = h}

\* C19: the step that receives a push notification starts one task for each
\* registered listener and no other, leaves the tasks started before as they
\* are, and ends with the receive loop awaiting the next frame; no listener is
\* ever started twice for one notification.  Whatever the listeners' tasks do
\* (run on for ever, return, raise), the receive loop, while its socket is open,
\* can take the next frame, reply or notification.
C19_ListenersDoNotBlock ==
    /\ [][\A t \in Tasks, f \in AllFrames :
              (IsNotify(f) /\ RecvFrame(t, f))
                  => /\ Len(listeners') = Len(listeners) + handlers
                     /\ SubSeq(listeners', 1, Len(listeners)) = listeners
                     /\ \A h \in 1..handlers :
                           /\ Cardinality(StartedFor(listeners', notified', h)) = 1
                           /\ \A i \in StartedFor(listeners', notified', h) :
                                 listeners'[i].st = "running"
                     /\ task'[t].pc = "r_recv"]_vars
    /\ [](\A n \in 1..MaxNotify, h \in 1..MaxHandlers :
              Cardinality(StartedFor(listeners, n, h)) <= 1)
    /\ [](\A t \in Tasks, f \in ListenerFrames :
              (/\ task[t].pc = "r_recv" /\ ~task[t].cancel /\ ~closed[task[t].sock]
               /\ IsNotify(f) => notified < notif_cap)
                  => ENABLED RecvFrame(t, f))

\* C19 witness: two listeners; of the tasks started for the first notification
\* one still runs and one raised; the second notification was queued and its
\* listeners started, and a reply was delivered to its request
C19_Witness ==
    /\ handlers = 2 /\ notified = 2 /\ updates_q = <<1, 2>> /\ Len(listeners) = 4
    /\ \E i, j \in DOMAIN listeners :
          /\ listeners[i].n = 1 /\ listeners[i].st = "running"
          /\ listeners[j].n = 1 /\ listeners[j].st = "raised"
    /\ \E i \in DOMAIN listeners : listeners[i].n = 2 /\ listeners[i].st = "returned"
    /\ \E r \in Reqs : req[r].st = "waiting" /\ req[r].fut = "result"

\* the staleness test of the keepalive loop
Stale == last_rx_set /\ last_rx_age > stale_after

\* C20: a keepalive tick that raises (the client holds no open socket, or the
\* send fails) is swallowed by the loop: the turn of the loop that made it
\* leaves the keepalive task alive, and, unless the socket is stale and the turn
\* goes on to reconnect, at its sleep; it changes neither the pending table nor
\* any request, so no caller sees the failure.  A tick that is sent registers
\* nothing: a turn of the loop never adds an entry to the pending table.
C20_TickFailureSwallowed ==
    /\ [][\A t \in Tasks :
              (KeepaliveTurn(t) /\ ~stop)
                  => /\ task'[t].kind = "keepalive" /\ task'[t].pc # "done"
                     /\ \A c \in CorrIds : pending'[c] \in {0, pending[c]}
                     /\ ~Stale => /\ task'[t].pc = "k_sleep"
                                   /\ pending' = pending /\ req' = req
                                   /\ caller' = caller]_vars
    /\ [][tick_failed' # tick_failed
              => /\ \E t \in Tasks : KeepaliveTurn(t) /\ task'[t].pc = "k_sleep"
                 /\ pending' = pending /\ req' = req /\ caller' = caller]_vars

\* C20 witness: two keepalive ticks raised on a socket the peer had closed
\* while a request was waiting; the keepalive loop is at its sleep and the
\* request is still registered and pending
C20_Witness ==
    /\ tick_failed = 2 /\ ~stop /\ ws # 0 /\ closed[ws]
    /\ ping_task # 0 /\ task[ping_task].kind = "keepalive" /\ task[ping_task].pc = "k_sleep"
    /\ Registered(1)

\* ------------------------------------------------------------------- login
\* the outcome of login as a function of the status and the body: the cases in
\* the order login tests them
OutcomeOf(r) ==
    IF r.status \in {401, 403} THEN "InvalidAuth"
    ELSE IF r.status >= 500 THEN "CannotConnect"
    ELSE IF r.shape = "nonjson" THEN "CannotConnect"
    ELSE IF ~(r.shape = "object" /\ r.d = "dict" /\ r.jt /\ r.si) THEN "InvalidAuth"
    ELSE IF r.gd \in {"absent", "empty"} THEN "ApiError"
    ELSE "ok"

\* C21 (as stated): a login call that gets a response ends in the one outcome
\* that the status and the body determine: 401 or 403 is an authentication
\* failure, 500 and above a connectivity failure, otherwise a body that is not
\* JSON a connectivity failure, otherwise a body without token or session id
\* an authentication failure, otherwise an empty device list the no-device
\* error (ApiError, neither of the two failures), otherwise success.
C21_LoginOutcomeIsDetermined ==
    [][\A r \in Responses :
          (r.status # 0 /\ Login(r)) => login_result' = OutcomeOf(r)]_vars

\* C22 (as stated): the stored session changes only in a login call that
\* succeeds: a call that ends in a failure leaves the token, the session id,
\* the session timestamp, the user id and the selected device as they were, and
\* so the selected device is always that of the response the stored session
\* comes from.
C22_FailedLoginKeepsSession ==
    /\ [][(logins' # logins /\ login_result' # "ok")
              => UNCHANGED <<jwt, session_id, session_ts, user_id, thermostat>>]_vars
    /\ [](thermostat # 0 => (thermostat = jwt /\ thermostat = session_id))

\* C23: whatever the login calls made and the responses they got, the stored
\* token and the stored session id are both there or both absent (and then
\* they come from the same response).
C23_TokenAndSessionTogether ==
    /\ (jwt = 0) <=> (session_id = 0)
    /\ jwt = session_id

\* C23 witness: three login calls were made; a session is stored, it is not
\* that of the last call, which failed for want of the token or the session id
C23_Witness ==
    /\ logins = 3 /\ login_result = "InvalidAuth"
    /\ jwt # 0 /\ session_id # 0 /\ jwt < logins

\* C24: connect() called while no session or no device is stored fails: the
\* call raises, no handshake is begun, no socket is opened and no task is
\* created.  A device is never stored without a session, and as long as no
\* login has stored a device the client has no socket and no background task.
C24_ConnectNeedsLogin ==
    /\ [](thermostat # 0 => (jwt # 0 /\ session_id # 0))
    /\ [](thermostat = 0 => (nsock = 0 /\ ws = 0 /\ recv_task = 0 /\ ping_task = 0
                             /\ caller = "idle"))
    /\ [][(ConnectCall /\ (jwt = 0 \/ session_id = 0 \/ thermostat = 0))
              => /\ connect_failed'
                 /\ UNCHANGED <<stop, ws, nsock, task, recv_task, ping_task, caller,
                                opened>>]_vars

\* C24 witness: a login stored a session and no device (the device list was
\* empty); connect() was then called and refused, and nothing was opened
C24_Witness ==
    /\ connect_failed /\ login_result = "ApiError"
    /\ jwt # 0 /\ thermostat = 0
    /\ nsock = 0 /\ ws = 0 /\ recv_task = 0 /\ ping_task = 0 /\ caller = "idle"

\* a listener task has run in this step
ListenerRan(i) ==
    /\ i \in DOMAIN listeners /\ listeners[i].st = "running"
    /\ listeners'[i].st # "running"

\* the notification of a listener task
PayloadOf(i) == coord.payloads[listeners[i].n]

\* a notification whose header names block 15 and whose body is [slot, item]
WellFormed(m) == m.pshape = "pair" /\ m.SI = THERMO_BLOCK /\ m.bshape = "pair"

\* C25: as long as no full-state read has completed the snapshot cache is
\* empty and no update was published; a notification applied to the empty
\* cache, whatever its item id and value, leaves the cache empty and publishes
\* nothing (the apply returned false).
C25_EmptyCacheIsNeverPatched ==
    /\ [](~coord.read_done => (coord.state_cache = EmptyDict /\ coord.pushed = 0))
    /\ [][\A i \in 1..(MaxNotify * MaxHandlers) :
             (ListenerRan(i) /\ coord.state_cache = EmptyDict)
                 => (coord'.state_cache = EmptyDict /\ coord'.pushed = coord.pushed)]_vars

\* C25 witness: the listener has run on a block-15 notification of a known
\* item while the first full-state read was still under way
C25_Witness ==
    /\ ~coord.read_done /\ coord.poll = "reading"
    /\ \E i \in DOMAIN listeners :
          /\ listeners[i].st = "returned"
          /\ WellFormed(PayloadOf(i)) /\ PayloadOf(i).item.I \in KnownIds

\* the snapshot field of an item id, by the item table (15-22)
FieldOf(iid) ==
    CASE iid = ITEM_TARGET -> "target_c"
      [] iid = ITEM_AMBIENT -> "ambient_c"
      [] iid = ITEM_HVAC -> "hvac"
      [] iid = ITEM_PRESET -> "preset"
      [] iid = ITEM_HUMID -> "humidity"
      [] iid = ITEM_NEXT_TIME -> "next_change_mins"
      [] iid = ITEM_NEXT_VALUE -> "next_target_c"
      [] iid = ITEM_FROST -> "frost_c"

\* C26: an item applied to a parsed snapshot: of a known id, it sets the field
\* of that id to the value the full parse decodes for the same item, leaves
\* every other field as it was, and reports a change exactly when the new
\* value differs from the field's previous one; of an unknown id, it leaves
\* the snapshot as it was and reports no change.
C26_ApplySetsOneField ==
    (call.pc = "applied" /\ call.cache # EmptyDict) =>
        IF call.item.I \in KnownIds
        THEN LET f == FieldOf(call.item.I)
             IN /\ DOMAIN call.after = Fields
                /\ \A g \in Fields \ {f} : call.after[g] = call.cache[g]
                /\ call.after[f] = ParseItem(NewState, call.item)[f]
                /\ call.changed <=> (call.after[f] # call.cache[f])
        ELSE call.after = call.cache /\ ~call.changed

\* C26 witness: an item of a known id was applied to a snapshot whose field
\* had a value, and changed it
C26_Witness ==
    /\ call.pc = "applied" /\ call.cache # EmptyDict
    /\ call.item.I \in KnownIds
    /\ call.cache[FieldOf(call.item.I)] # NoneV
    /\ call.after[FieldOf(call.item.I)] # NoneV
    /\ call.changed

\* the response carries, in a block 15, an item for field f
HasItemFor(r, f) ==
    /\ r.shape = "vec"
    /\ \E b \in DOMAIN r.blocks :
          /\ r.blocks[b].shape = "dict" /\ r.blocks[b].SI = THERMO_BLOCK
          /\ r.blocks[b].vshape = "list"
          /\ \E k \in DOMAIN r.blocks[b].items :
                LET it == r.blocks[b].items[k]
                IN it.dict /\ it.I \in KnownIds /\ FieldOf(it.I) = f

\* C27: when a poll completes, the snapshot is the parse of the response of
\* that poll and of nothing else: every field the response has no item for is
\* unknown, whatever the snapshot held before.
C27_PollReplacesSnapshot ==
    [][(coord.poll = "reading" /\ coord'.poll = "idle" /\ coord'.last_result = "ok")
          => /\ coord'.state_cache = parse_state_read(coord'.last_read).state
             /\ DOMAIN coord'.state_cache = Fields
             /\ \A f \in Fields :
                   ~HasItemFor(coord'.last_read, f) => coord'.state_cache[f] = NoneV]_vars

\* C27 witness: the only notification so far was applied and changed a field,
\* and a poll completed later whose response has no item for that field: the
\* field is unknown again
C27_Witness ==
    /\ coord.poll = "idle" /\ coord.last_result = "ok"
    /\ Len(coord.payloads) = 1 /\ coord.pushed = 1
    /\ 1 \in DOMAIN listeners /\ listeners[1].st = "returned"
    /\ PayloadOf(1).item.I \in KnownIds
    /\ ~HasItemFor(coord.last_read, FieldOf(PayloadOf(1).item.I))
    /\ coord.state_cache[FieldOf(PayloadOf(1).item.I)] = NoneV

\* a block of id 15, and an item of a known id
IsBlock15(b) == b.shape = "dict" /\ b.SI = THERMO_BLOCK
IsKnownItem(it) == it.dict /\ it.I \in KnownIds

\* the blocks of id 15 of a response, each with its items of known ids only
Block15Only(r) ==
    LET F == SelectSeq(r.blocks, IsBlock15)
    IN [i \in 1..Len(F) |-> [F[i] EXCEPT !.items = SelectSeq(@, IsKnownItem)]]

\* C28: the full parse returns a snapshot, never an error; the snapshot is the
\* one decoded from the items of known ids of the blocks of id 15 alone; a
\* response that is no object, or whose "V" is no list, or that has no block
\* 15 with a list of items, gives the snapshot with every field unknown.
C28_ParseDecodesBlock15Only ==
    call.pc = "parsed" =>
        /\ ~call.raised
        /\ call.read.shape # "vec" => call.state = NewState
        /\ call.read.shape = "vec" =>
              /\ call.state = ParseBlocks(NewState, Block15Only(call.read)).state
              /\ (\A b \in DOMAIN call.read.blocks :
                     ~(IsBlock15(call.read.blocks[b]) /\ call.read.blocks[b].vshape = "list"))
                 => call.state = NewState

\* C29: a notification whose header does not name block 15, or whose payload
\* is not [header, [slot, item]], leaves the snapshot as it was and publishes
\* no update when the coordinator's listener runs on it; an update is
\* published only by a listener run on a well-formed block-15 notification.
\* Whatever its content, a notification is put on the queue and handed to a
\* listener task when it is dispatched, and its content is not altered later.
C29_OnlyBlock15Notifies ==
    /\ [][\A i \in 1..(MaxNotify * MaxHandlers) :
             (ListenerRan(i) /\ ~WellFormed(PayloadOf(i)))
                 => (coord'.state_cache = coord.state_cache /\ coord'.pushed = coord.pushed)]_vars
    /\ [][coord'.pushed # coord.pushed
             => \E i \in DOMAIN listeners : ListenerRan(i) /\ WellFormed(PayloadOf(i))]_vars
    /\ [][notified' = notified + 1
             => /\ updates_q' # <<>> /\ updates_q'[Len(updates_q')] = notified'
                /\ Len(coord'.payloads) = notified'
                /\ \E i \in DOMAIN listeners' :
                      /\ i \notin DOMAIN listeners
                      /\ listeners'[i].n = notified' /\ listeners'[i].st = "running"]_vars
    /\ [][\A k \in DOMAIN coord.payloads :
             k \in DOMAIN coord'.payloads /\ coord'.payloads[k] = coord.payloads[k]]_vars

\* C29 witness: after a full read, the listener has run on a notification for
\* another block whose item would have changed a field; nothing was
\* published, the snapshot is the one of the read, and the notification is on
\* the queue
C29_Witness ==
    /\ coord.read_done /\ coord.last_result = "ok" /\ coord.pushed = 0
    /\ coord.state_cache = parse_state_read(coord.last_read).state
    /\ Len(coord.payloads) = 1 /\ updates_q = <<1>>
    /\ 1 \in DOMAIN listeners /\ listeners[1].st = "returned"
    /\ LET m == PayloadOf(1)
       IN /\ m.pshape = "pair" /\ m.bshape = "pair" /\ m.SI = THERMO_BLOCK - 1
          /\ m.item.I \in KnownIds
          /\ ParseItem(NewState, m.item)[FieldOf(m.item.I)]
                 # coord.state_cache[FieldOf(m.item.I)]

\* res is what the raw ambient value v must decode to: v / 10 degrees (the
\* float is written as its floor a and its tenths digit b) when v is an
\* integer from -500 to 5000, unknown otherwise
AmbientDecoded(v, res) ==
    IF v.k = "int" /\ -500 <= v.n /\ v.n <= 5000
    THEN res.k = "float" /\ res.b \in 0..9 /\ 10 * res.a + res.b = v.n
    ELSE res = NoneV

C31_DeciRoundTrip ==
    call.pc = "done" =>
        /\ call.from = "celsius" =>
               call.out - call.input <= 10 /\ call.input - call.out <= 10
        /\ call.from = "deci" => call.out = call.input

\* C31 witness: 21.37 degrees was encoded to 214 and decoded to 21.4 degrees
C31_Witness ==
    /\ call.pc = "done" /\ call.from = "celsius"
    /\ call.input = 2137 /\ call.mid = 214 /\ call.out = 2140

\* the call wrote one frame, a state write: block 2 / sub 15 with the
\* arguments [1, item]
OneStateWrite ==
    /\ Len(call.frames) = 1
    /\ call.frames[1].HI = 2 /\ call.frames[1].SI = 15
    /\ call.frames[1].args.slot = 1

\* the item of the frame the call wrote
Written == call.frames[1].args.item

\* v is round(c * 10) for the celsius value of h hundredths
RoundedDeci(h, v) == 10 * v - h <= 5 /\ h - 10 * v <= 5

\* C32: a write command that reaches the socket writes exactly one frame, a
\* request to block 2 / sub 15 with the arguments [1, {I, V, OT, D}]; a command
\* that raises or finds no socket writes none.  set_target_temp(c) writes item
\* id 1, value round(c * 10), operation type 1 and duration 0; set_timed_hold(c, m)
\* writes item id 1, value round(c * 10), operation type 2 and duration m.
C32_WriteShape ==
    /\ call.pc # "called" => call.frames = <<>>
    /\ call.pc = "called" =>
          /\ req[1].st = "waiting" <=> call.frames # <<>>
          /\ call.frames # <<>> => OneStateWrite
          /\ call.frames # <<>> /\ call.cmd.op = "set_target_temp" =>
                 /\ Written.I = 1 /\ RoundedDeci(call.cmd.c, Written.V)
                 /\ Written.OT = 1 /\ Written.D = 0
          /\ call.frames # <<>> /\ call.cmd.op = "set_timed_hold" =>
                 /\ Written.I = 1 /\ RoundedDeci(call.cmd.c, Written.V)
                 /\ Written.OT = 2 /\ Written.D = call.cmd.m

\* C32 witness: set_timed_hold(18.75, 45) wrote item 1, value 188, operation
\* type 2, duration 45
C32_Witness ==
    /\ call.pc = "called" /\ call.cmd.op = "set_timed_hold"
    /\ call.cmd.c = 1875 /\ call.cmd.m = 45
    /\ OneStateWrite
    /\ Written = [I |-> 1, V |-> 188, OT |-> 2, D |-> 45]

\* set_mode(True) has written a frame
SetModeOnWritten ==
    /\ call.pc = "called" /\ call.cmd.op = "set_mode" /\ call.cmd.on
    /\ call.frames # <<>>

FieldWritten(cmd) ==
    IF cmd.op = "set_target_temp" THEN "target_c"
    ELSE IF cmd.op \in {"set_mode", "set_hvac"} THEN "hvac"
    ELSE "preset"

\* val is the value the command asked for: the celsius value to the nearest
\* tenth, 1 for heat and 0 for off, the preset named or numbered
IsCommanded(cmd, val) ==
    IF cmd.op = "set_target_temp"
    THEN /\ val.k = "float" /\ val.b \in 0..9
         /\ Hundredths(val) - cmd.c <= 5 /\ cmd.c - Hundredths(val) <= 5
    ELSE IF cmd.op \in {"set_mode", "set_hvac"}
    THEN val = [k |-> "int", a |-> IF cmd.on THEN 1 ELSE 0, b |-> 0]
    ELSE IF cmd.p \in {PresetCode(1), PresetStr("away"), PresetStr("AWAY"), PresetStr(" Away ")}
    THEN val.k = "away"
    ELSE val.k = "home"

\* snap holds the commanded value in the command's field and nothing else
DecodedAsCommanded(cmd, snap) ==
    /\ IsCommanded(cmd, snap[FieldWritten(cmd)])
    /\ \A x \in Fields \ {FieldWritten(cmd)} : snap[x] = NoneV

SequencePcs ==
    {"rc_self_ping", "rc_wait_ping", "rc_self_recv", "rc_wait_recv",
     "rc_closing", "rc_open", "rc_backoff", "rc_backoff_stop"}

\* the tasks that are inside a reconnect sequence
InSequence == {t \in Tasks : task[t].pc \in SequencePcs}

\* the step in which the waiting trigger t enters the lock
LockEntered(t) ==
    task[t].pc = "rc_lock" /\ ~task[t].cancel /\ task'[t].pc # "rc_lock"

FrameSent(r) == \E s \in Sockets : <<s, r>> \in sent

\* C36: whenever the frame of a request has been sent and its future is
\* neither completed nor failed by a reset, the pending table has an entry
\* under the request's correlation id.
C36_RegisteredBeforeSend ==
    \A r \in Reqs :
        FrameSent(r) /\ req[r].fut = "pending" =>
            req[r].corr \in CorrIds /\ pending[req[r].corr] # 0

\* C37: every entry of the pending table belongs to a request whose caller is
\* waiting for it: no entry is left by a request whose send failed.
C37_EntriesHaveWaitingCallers ==
    \A c \in CorrIds :
        pending[c] # 0 => req[pending[c]].st = "waiting" /\ req[pending[c]].fut = "pending"

\* C38: whenever the client holds no socket, the pending table is empty.
C38_NoSocketNoPending == ws = 0 => pending = NoPending

\* C38 witness: a reconnect sequence is in its retry phase, the client holds no
\* socket, and a request that was pending has been failed with the reset
C38_Witness ==
    /\ ws = 0 /\ pending = NoPending
    /\ \E t \in Tasks : Reconnecting(Cur, t) /\ task[t].pc \in {"rc_open", "rc_backoff"}
    /\ \E r \in Reqs : FrameSent(r) /\ req[r].fut = "reset"

\* The receive loop has ended without an exception because the server closed
\* the socket (_recv_loop 373-400: "async for" is exhausted): connect() has
\* succeeded and disconnect() was not called since, the client still references
\* the closed socket and the finished receive task, and is not stopped.
QuietlyClosed ==
    /\ opened /\ ~stop /\ ws # 0 /\ closed[ws]
    /\ recv_task # 0 /\ task[recv_task] = DoneTask

\* C39: after the receive loop has ended on a normal close while the client is
\* not stopped, the client eventually enters Reconnecting, the reconnect
\* sequence eventually reaches a socket-open attempt (which connects as soon as
\* the server accepts the handshake), and every request that was in the
\* pending table at the close is eventually failed; each unless the client is
\* stopped first.
C39_QuietCloseRecovers ==
    /\ QuietlyClosed ~> (stop \/ \E t \in Tasks : Reconnecting(Cur, t))
    /\ QuietlyClosed ~> (stop \/ \E t \in Tasks : Reconnecting(Cur, t) /\ task[t].pc = "rc_open")
    /\ \A r \in Reqs :
          (QuietlyClosed /\ r \in InTable(Cur) /\ req[r].fut = "pending")
              ~> (stop \/ req[r].fut # "pending")
    /\ [][\A t \in Tasks : (RcOpenOk(t) /\ ~stop) => WsAlive(CurNext) /\ ws' # ws]_vars

\* C39 witness: after a normal close with a request in the pending table, the
\* staleness check of the keepalive loop has entered the reconnect sequence
C39_Witness ==
    /\ QuietlyClosed
    /\ \E t \in Tasks : Reconnecting(Cur, t) /\ task[t].kind = "keepalive"
    /\ \E r \in Reqs : r \in InTable(Cur) /\ req[r].fut = "pending"

\* the bases of the waits before the attempts 2, 3, ...: 1, 2, 4, 8, 16, 30, 30, ...
BaseTable == <<1, 2, 4, 8, 16, 30>>
BaseBefore(k) == IF k - 1 < Len(BaseTable) THEN BaseTable[k - 1] ELSE BaseTable[Len(BaseTable)]

\* C40: in a reconnect sequence the first socket-open attempt is made without a
\* wait; before attempt k >= 2 the client waits base + jitter seconds with base
\* 1, 2, 4, 8, 16, 30, 30, ... (min(30, 2^(k-2))) and 0 <= jitter < 1; the base
\* never decreases from one attempt to the next and never exceeds 30; every
\* handshake from the second on is begun by the end of such a wait; and when the
\* stop event is set during the wait the sequence ends without another handshake.
C40_BackoffSchedule ==
    /\ [](/\ call.attempt = 1 => call.pc # "wait" /\ call.delay = 0 /\ call.base = 0
          /\ call.attempt >= 2 => call.base = BaseBefore(call.attempt)
          /\ call.attempt >= 2 /\ call.pc \notin {"top", "exited"} =>
                 1000 * call.base <= call.delay /\ call.delay < 1000 * (call.base + 1)
          /\ call.last_base <= call.base /\ call.base <= 30
          /\ call.pc \in {"woken", "aborted"} => call.stop)
    /\ [][/\ call'.opens > call.opens =>
                 /\ call'.opens = call.opens + 1 /\ call'.pc = "open"
                 /\ call'.attempt = 1 \/ (call.pc = "wait" /\ ~call.stop)
          /\ call.pc = "wait" /\ call'.stop /\ ~call.stop => call'.pc = "woken"
          /\ call.pc = "woken" => call'.pc = "aborted" /\ call'.opens = call.opens
          /\ call.pc = "aborted" => call' = call]_vars

\* C40 witness: the eighth attempt waits 30.999 seconds, the seventh had
\* waited on a base of 30 as well
C40_Witness ==
    /\ call.pc = "wait" /\ call.attempt = 8
    /\ call.base = 30 /\ call.last_base = 30 /\ call.delay = 30999
====
